---------------------------- MODULE Spec2Model ----------------------------
(***************************************************************************)
(* AI-Firewall browser extension: the background service worker's result   *)
(* cache and analysis handlers, and the page-side ContentScanner and        *)
(* DOMManipulator.                                                          *)
(*                                                                          *)
(*   SpecSW   : the service worker (analysisCache, handleTextAnalysis,      *)
(*              handleImageAnalysis); ANALYZE_* messages are inputs.        *)
(*   SpecPage : one page (ContentScanner instances, DOMManipulator, the     *)
(*              content script's commands); the replies to the messages     *)
(*              the page sends are inputs.                                  *)
(*   SpecKeys, SpecDom, SpecReveal, SpecLife : the same state machine with  *)
(*              the inputs of one part: requests that differ in policy, the  *)
(*              DOMManipulator alone, reveals and restores, the content      *)
(*              script's commands.                                           *)
(*   SpecClear, SpecStats, SpecInstall : the service worker with the        *)
(*              CLEAR_CACHE message, with the storage calls of updateStats   *)
(*              as steps, and from onInstalled on.                           *)
(*   SpecLoad, SpecDetach, SpecPopup, SpecSkip : one page from its load on  *)
(*              (with fairness), a page that removes elements, the popup's   *)
(*              switches, and a page initialize() skips.                     *)
(*   SpecMethod : one page whose analyses are answered with every verdict   *)
(*              of PageVerdicts.                                             *)
(*                                                                          *)
(* JavaScript runs every task to its next await without interleaving, so    *)
(* an action is one task: a handler from its start (or from the await it    *)
(* resumed at) to its next await or its end.                                *)
(***************************************************************************)
EXTENDS Integers, Sequences, FiniteSets, Bags, TLC

(***************************************************************************)
(* Bounds of the model.                                                     *)
(***************************************************************************)
\* CONFIG.MAX_CACHE_SIZE is 1000 in the source (service-worker.js:10); the
\* model keeps the comparison and scales the number.
MAX_CACHE_SIZE == 3
\* CONFIG.CACHE_DURATION is 5 * 60 * 1000 ms in the source
\* (service-worker.js:9); the model counts clock ticks.
CACHE_DURATION == 2
\* Date.now() runs from 0 to MaxTime.
MaxTime == 2
\* The counters of chrome.storage.local are followed up to MaxStat.
MaxStat == 2
\* Analysis handlers suspended at an await at the same time.
MaxInflight == 2
\* Page nodes that can match the scanner's selectors.
NumNodes == 3
\* ContentScanner instances constructed during one page's life.
MaxScanners == 2

(***************************************************************************)
(* Values.                                                                  *)
(***************************************************************************)
Min(a, b) == IF a < b THEN a ELSE b

SeqRange(s) == {s[i] : i \in 1..Len(s)}

\* A Classification Verdict as the Gateway returns it: confidence in
\* hundredths, flagged_categories as the array of labels.
Verdict(safe, conf, cats) ==
  [is_safe |-> safe, confidence |-> conf, flagged_categories |-> cats]

\* The verdicts the Gateway returns to the service worker in SpecSW.
GatewayVerdicts ==
  {Verdict(TRUE, 10, <<>>), Verdict(FALSE, 90, <<"identity_hate">>)}

NoVerdict == Verdict(TRUE, -1, <<>>)

\* Payloads (text, or the image's data URL) as sequences of char codes.
Contents == {<<97>>, <<98>>}

\* A 32-bit integer as two 16-bit halves <<high, low>> (TLC's own
\* integers are 32 bits wide, so the product is taken half by half).
HashStep(h, char) ==
  LET low == h[2] * 31 + char
      high == h[1] * 31 + (low \div 65536)
  IN <<high % 65536, low % 65536>>

RECURSIVE HashFrom(_, _, _)
HashFrom(str, i, h) ==
  IF i > Len(str) THEN h ELSE HashFrom(str, i + 1, HashStep(h, str[i]))

\* The halves read as a signed 32-bit integer.
ToInt32(h) ==
  IF h[1] >= 32768 THEN (h[1] - 65536) * 65536 + h[2] ELSE h[1] * 65536 + h[2]

\* hashString: hash = ((hash << 5) - hash) + char, hash = hash & hash, that
\* is hash * 31 + char wrapped to 32 bits.
hashString(str) == ToInt32(HashFrom(str, 1, <<0, 0>>))

\* The characters of the string literals of the model.
Chars(s) ==
  CASE s = "text" -> <<"t", "e", "x", "t">>
    [] s = "image" -> <<"i", "m", "a", "g", "e">>
    [] s = "moderate" -> <<"m", "o", "d", "e", "r", "a", "t", "e">>
    [] s = "strict" -> <<"s", "t", "r", "i", "c", "t">>
    [] s = "mild" -> <<"m", "i", "l", "d">>
    [] OTHER -> <<"?">>

DigitChar(d) == <<"0", "1", "2", "3", "4", "5", "6", "7", "8", "9">>[d + 1]

RECURSIVE NatToString(_)
NatToString(n) ==
  IF n < 10 THEN <<DigitChar(n)>>
  ELSE NatToString(n \div 10) \o <<DigitChar(n % 10)>>

\* Number.prototype.toString of the hash: a decimal integer with its sign.
\* (-2^31 is split since its absolute value is no 32-bit integer.)
IntToString(n) ==
  IF n >= 0 THEN NatToString(n)
  ELSE LET last == (10 - (n % 10)) % 10
           rest == (0 - (n \div 10)) - (IF last = 0 THEN 0 ELSE 1)
       IN <<"-">> \o (IF rest = 0 THEN <<>> ELSE NatToString(rest))
                 \o <<DigitChar(last)>>

\* `${threshold}` of a threshold given in hundredths: 60 is 0.6, 45 is 0.45.
NumberToString(h) ==
  IF h % 100 = 0 THEN NatToString(h \div 100)
  ELSE NatToString(h \div 100) \o <<".", DigitChar((h % 100) \div 10)>>
         \o (IF h % 10 = 0 THEN <<>> ELSE <<DigitChar(h % 10)>>)

\* (mutant) a cache key without the threshold.
CacheKeyNoThreshold(kind, payload, threshold, ageGroup) ==
  Chars(kind) \o <<":">> \o IntToString(hashString(payload))
    \o <<":">> \o Chars(ageGroup)

\* `${kind}:${hashString(payload)}:${threshold}:${ageGroup}`
CacheKey(kind, payload, threshold, ageGroup) ==
  Chars(kind) \o <<":">> \o IntToString(hashString(payload))
    \o <<":">> \o NumberToString(threshold) \o <<":">> \o Chars(ageGroup)

\* The requests ANALYZE_TEXT / ANALYZE_IMAGE carry in SpecSW.
Requests ==
  {[kind |-> "text", payload |-> c, threshold |-> 60, ageGroup |-> "moderate"]
     : c \in Contents}
  \cup {[kind |-> "image", payload |-> c, threshold |-> 50,
           ageGroup |-> "moderate"] : c \in Contents}

KeyOf(d) == CacheKey(d.kind, d.payload, d.threshold, d.ageGroup)

VARIABLES
  analysisCache,    \* the Map, as its entries in insertion order
  pendingRequests,  \* the Map declared next to it
  now,              \* Date.now()
  handlers,         \* bag of analysis handlers suspended at an await
  swEvent,          \* the last thing a handler did (history)
  totalScanned,     \* chrome.storage.local: the counter totalScanned
  classified,       \* analyses answered with a Gateway result (history)
  hostname,         \* window.location.hostname of the page
  storage,          \* chrome.storage.sync: the stored settings
  dom,              \* the page's nodes: attributes, classes, attachment
  scanners,         \* the ContentScanner instances constructed so far
  contentScanner,   \* the content script's contentScanner (0: null)
  requests,         \* analyses of the page suspended at an await
  blockedElements,  \* DOMManipulator.blockedElements
  replacementElements, \* DOMManipulator.replacementElements, by original
  queued,           \* per node: times pushed to a scanQueue (history)
  sent,             \* per node: ANALYZE_* messages sent (history)
  unhandled,        \* the async functions whose rejection nobody caught
  pgEvent,          \* the last reply the page handled (history)
  isEnabled,        \* the content script's isEnabled
  paused,           \* pauseScanning ran last, not resumeScanning (history)
  updated,          \* UPDATE_SETTINGS replaced a running scanner (history)
  levelBeforeOff,   \* the level the popup's last switch-off replaced (history)
  absentKeys        \* the default keys chrome.storage.sync has no value for
                    \* (what storage holds under such a key is not read)

swVars == <<analysisCache, pendingRequests, now, handlers, swEvent,
            totalScanned, classified>>

pageVars == <<hostname, storage, dom, scanners, contentScanner, requests,
              blockedElements, replacementElements, queued, sent, unhandled,
              pgEvent, isEnabled, paused, updated, levelBeforeOff,
              absentKeys>>

\* The state of the content script besides its scanner, of the popup, and
\* the keys of the stored settings.
scriptVars == <<isEnabled, paused, updated, levelBeforeOff, absentKeys>>

vars == <<analysisCache, pendingRequests, now, handlers, swEvent,
          totalScanned, classified,
          hostname, storage, dom, scanners, contentScanner, requests,
          blockedElements, replacementElements, queued, sent, unhandled,
          pgEvent, isEnabled, paused, updated, levelBeforeOff, absentKeys>>

(***************************************************************************)
(* The result cache.                                                        *)
(***************************************************************************)
CacheKeys(cache) == {cache[i].key : i \in 1..Len(cache)}

CacheIndex(cache, key) == CHOOSE i \in 1..Len(cache) : cache[i].key = key

CacheDelete(cache, key) ==
  SelectSeq(cache, LAMBDA e : e.key # key)

\* (mutant) the age test with <= for <.
CacheFreshInclusive(cache, key, t) ==
  /\ key \in CacheKeys(cache)
  /\ t - cache[CacheIndex(cache, key)].timestamp <= CACHE_DURATION

\* cached && Date.now() - cached.timestamp < CONFIG.CACHE_DURATION
CacheFresh(cache, key, t) ==
  /\ key \in CacheKeys(cache)
  /\ t - cache[CacheIndex(cache, key)].timestamp < CACHE_DURATION

\* (mutant) getFromCache without the age test.
getFromCacheRetNoExpiry(cache, key, t) ==
  IF key \in CacheKeys(cache) THEN cache[CacheIndex(cache, key)].data
  ELSE NoVerdict

\* getFromCache: the value it returns (NoVerdict for null) ...
getFromCacheRet(cache, key, t) ==
  IF CacheFresh(cache, key, t) THEN cache[CacheIndex(cache, key)].data
  ELSE NoVerdict

\* ... and the cache it leaves.
getFromCacheMap(cache, key, t) ==
  IF CacheFresh(cache, key, t) THEN cache ELSE CacheDelete(cache, key)

\* Map.set: an existing key keeps its place in the insertion order.
MapSet(cache, key, entry) ==
  IF key \in CacheKeys(cache)
  THEN [cache EXCEPT ![CacheIndex(cache, key)] = entry]
  ELSE Append(cache, entry)

\* (mutant) the size test with > for >=.
EvictFirstStrict(cache) ==
  IF Len(cache) > MAX_CACHE_SIZE /\ Len(cache) > 0 THEN Tail(cache) ELSE cache

\* The first step of setCache: at the size limit, delete keys().next().value.
EvictFirst(cache) ==
  IF Len(cache) >= MAX_CACHE_SIZE /\ Len(cache) > 0 THEN Tail(cache) ELSE cache

setCache(cache, key, data, t) ==
  MapSet(EvictFirst(cache), key, [key |-> key, data |-> data, timestamp |-> t])


(***************************************************************************)
(* The analysis handlers of the service worker.                             *)
(***************************************************************************)
\* What the last handler task did (history): op is
\*   "hit"         getFromCache returned an entry; replied with it
\*   "miss"        no entry for the key; makeApiRequest called
\*   "expired"     a stale entry for the key was deleted; makeApiRequest called
\*   "stored"      makeApiRequest resolved; setCache without an eviction
\*   "storedEvict" makeApiRequest resolved; setCache deleted the first key
\*   "apiFailed"   makeApiRequest threw; replied success: false
\*   "replied"     updateStats done; replied success: true with the result
\*   "statsFailed" updateStats threw; replied success: false
\*   "unknownType" no case for the message type; replied with an error only
\*   "statsRead"   a get of updateStats resolved
\*   "statsWritten" a set of updateStats resolved, another call follows
\*   "installed"   onInstalled fired; setDefaultSettings called
\*   "defaultsKept" the get of setDefaultSettings found every key
\*   "defaultsRead" the get of setDefaultSettings found keys missing
\*   "defaultsWritten" the set of setDefaultSettings resolved
\*   "settingsUpdated" handleUpdateSettings stored its data
\* and result is the verdict sendResponse was given (NoVerdict: none).
Event(op, result) == [op |-> op, result |-> result]

NoEvent == Event("none", NoVerdict)

\* The ops that reply success: true, and those that reply success: false.
RepliesSuccess(op) == op \in {"hit", "replied"}

RepliesFailure(op) == op \in {"apiFailed", "statsFailed"}

\* A handler suspended at an await, with the locals it still reads: at the
\* await of makeApiRequest ("api") its cacheKey, at the await of updateStats
\* ("stats") the result.  Inside updateStats it is at the await of
\* chrome.storage.local.get ("stats") or of chrome.storage.local.set
\* ("statsSet"), in the first or the second call of updateStats, and holds
\* the totalScanned it read.
StatsHandler(pc, result, call, read) ==
  [key |-> <<>>, pc |-> pc, result |-> result, call |-> call, read |-> read]

Handler(key, pc, result) ==
  [key |-> key, pc |-> pc, result |-> result, call |-> 1, read |-> 0]

NoKey == <<>>

\* The Gateway requests (makeApiRequest) outstanding for a key.
Outstanding(hs, key) == CopiesIn(Handler(key, "api", NoVerdict), hs)

EntryAge(cache, key, t) ==
  IF key \in CacheKeys(cache)
  THEN t - cache[CacheIndex(cache, key)].timestamp ELSE -1

OldestTimestamp(cache) ==
  CHOOSE t \in {cache[i].timestamp : i \in 1..Len(cache)} :
    \A i \in 1..Len(cache) : t <= cache[i].timestamp

\* (mutant) a catch block that caches the failure under the key.
CacheAfterFailureStored(cache, key, t) == setCache(cache, key, NoVerdict, t)

\* The cache after the catch block of a handler: the block only logs and
\* replies.
CacheAfterFailure(cache, key, t) == cache

\* handleTextAnalysis / handleImageAnalysis up to the await of
\* makeApiRequest: the cache lookup, and on a hit the reply.
AnalysisStart(d) ==
  LET key == KeyOf(d)
      cached == getFromCacheRet(analysisCache, key, now)
  IN /\ analysisCache' = getFromCacheMap(analysisCache, key, now)
     /\ IF cached # NoVerdict
        THEN /\ handlers' = handlers
             /\ swEvent' = Event("hit", cached)
        ELSE /\ BagCardinality(handlers) < MaxInflight
             /\ handlers' = handlers (+) SetToBag({Handler(key, "api", NoVerdict)})
             /\ swEvent' = Event(IF key \in CacheKeys(analysisCache)
                                 THEN "expired" ELSE "miss", NoVerdict)
     /\ UNCHANGED <<pendingRequests, now, totalScanned, classified, pageVars>>

handleTextAnalysis ==
  \E d \in Requests : d.kind = "text" /\ AnalysisStart(d)

handleImageAnalysis ==
  \E d \in Requests : d.kind = "image" /\ AnalysisStart(d)

\* makeApiRequest resolved: setCache, then the await of updateStats.
ApiResolved ==
  \E h \in BagToSet(handlers), v \in GatewayVerdicts :
    /\ h.pc = "api"
    /\ analysisCache' = setCache(analysisCache, h.key, v, now)
    /\ handlers' = (handlers (-) SetToBag({h}))
                     (+) SetToBag({Handler(NoKey, "stats", v)})
    /\ swEvent' = Event(IF EvictFirst(analysisCache) # analysisCache
                        THEN "storedEvict" ELSE "stored", NoVerdict)
    /\ UNCHANGED <<pendingRequests, now, totalScanned, classified, pageVars>>

\* makeApiRequest threw (fetch rejected, or response.ok was false): the
\* catch block replies success: false.
ApiRejected ==
  \E h \in BagToSet(handlers) :
    /\ h.pc = "api"
    /\ analysisCache' = CacheAfterFailure(analysisCache, h.key, now)
    /\ handlers' = handlers (-) SetToBag({h})
    /\ swEvent' = Event("apiFailed", NoVerdict)
    /\ UNCHANGED <<pendingRequests, now, totalScanned, classified, pageVars>>

\* updateStats(statName) on the counter it read: newStats.totalScanned.
updateStats(read) == Min(read + 1, MaxStat)

\* The calls of updateStats a handler makes for a result: one for the kind
\* of content and, if (!result.is_safe), one for 'content_blocked'.
StatsCalls(result) == IF result.is_safe THEN 1 ELSE 2

\* updateStats done: sendResponse({ success: true, result }).  The steps
\* inside updateStats, and with them the counters of chrome.storage.local,
\* are followed by StatsGet and StatsSet, not here.
StatsResolved ==
  \E h \in BagToSet(handlers) :
    /\ h.pc = "stats"
    /\ handlers' = handlers (-) SetToBag({h})
    /\ swEvent' = Event("replied", h.result)
    /\ UNCHANGED <<analysisCache, pendingRequests, now, totalScanned,
                   classified, pageVars>>

\* chrome.storage threw inside updateStats: the same catch block.
StatsRejected ==
  \E h \in BagToSet(handlers) :
    /\ h.pc = "stats"
    /\ analysisCache' = CacheAfterFailure(analysisCache, h.key, now)
    /\ handlers' = handlers (-) SetToBag({h})
    /\ swEvent' = Event("statsFailed", NoVerdict)
    /\ UNCHANGED <<pendingRequests, now, totalScanned, classified, pageVars>>

\* chrome.storage.local.get of updateStats resolves for a handler: it
\* builds newStats from what it read and calls chrome.storage.local.set.
StatsGet ==
  \E h \in BagToSet(handlers) :
    /\ h.pc = "stats"
    /\ handlers' = (handlers (-) SetToBag({h}))
                     (+) SetToBag({StatsHandler("statsSet", h.result, h.call,
                                                totalScanned)})
    /\ swEvent' = Event("statsRead", NoVerdict)
    /\ UNCHANGED <<analysisCache, pendingRequests, now, totalScanned,
                   classified, pageVars>>

\* chrome.storage.local.set of updateStats resolves for a handler: the
\* counter is what the handler computed; then the next call of updateStats
\* or, after the last, sendResponse({ success: true, result }).
StatsSet ==
  \E h \in BagToSet(handlers) :
    /\ h.pc = "statsSet"
    /\ totalScanned' = updateStats(h.read)
    /\ IF h.call < StatsCalls(h.result)
       THEN /\ handlers' = (handlers (-) SetToBag({h}))
                             (+) SetToBag({StatsHandler("stats", h.result,
                                                        h.call + 1, 0)})
            /\ swEvent' = Event("statsWritten", NoVerdict)
            /\ classified' = classified
       ELSE /\ handlers' = handlers (-) SetToBag({h})
            /\ swEvent' = Event("replied", h.result)
            /\ classified' = Min(classified + 1, MaxStat)
    /\ UNCHANGED <<analysisCache, pendingRequests, now, pageVars>>

\* The onMessage listener for { type: 'CLEAR_CACHE' }, the message clearCache
\* of the options page sends: the switch has no case for it, so the default
\* branch answers { error: 'Unknown message type' } and nothing else is done.
ClearCacheMessage ==
  /\ swEvent' = Event("unknownType", NoVerdict)
  /\ UNCHANGED <<analysisCache, pendingRequests, now, handlers,
                 totalScanned, classified, pageVars>>

\* Time passes between tasks.
Tick ==
  /\ now < MaxTime
  /\ now' = now + 1
  /\ UNCHANGED <<analysisCache, pendingRequests, handlers, swEvent,
                 totalScanned, classified, pageVars>>

(***************************************************************************)
(* The page: strings, settings, the nodes.                                  *)
(***************************************************************************)
\* Strings the code searches in, as sequences of characters.
HostPlain == <<"a", ".", "b">>

HostGoogle == <<"g", "o", "o", "g", "l", "e", ".", "b">>

GoogleDot == <<"g", "o", "o", "g", "l", "e", ".">>

Hostnames == {HostPlain, HostGoogle}

\* An allowlist entry for a subdomain of HostPlain.
HostSub == <<"m", ".", "a", ".", "b">>

\* String.prototype.includes
Includes(str, sub) ==
  \E i \in 0..(Len(str) - Len(sub)) : SubSeq(str, i + 1, i + Len(sub)) = sub

\* The hostname of a page of the browser's extension store.
HostStore ==
  <<"c", "h", "r", "o", "m", "e", ".", "g", "o", "o", "g", "l", "e", ".",
    "c", "o", "m">>

\* skipDomains of shouldSkipPage, as far as a hostname can include them.
skipDomains ==
  {<<"c", "h", "r", "o", "m", "e", ".", "g", "o", "o", "g", "l", "e", ".",
     "c", "o", "m">>,
   <<"c", "h", "r", "o", "m", "e", "w", "e", "b", "s", "t", "o", "r", "e",
     ".", "g", "o", "o", "g", "l", "e", ".", "c", "o", "m">>}

\* shouldSkipPage() for a page served over http(s) from host:
\* skipDomains.some(domain => hostname.includes(domain) || ...).
shouldSkipPage(host) == \E domain \in skipDomains : Includes(host, domain)

Settings(level, age, allow) ==
  [filteringLevel |-> level, ageGroup |-> age, allowlist |-> allow]

\* this.settings = null, as the constructor leaves it.
NoSettings == Settings("null", "null", <<>>)

\* The defaults loadSettings falls back to.
DefaultSettings == Settings("moderate", "moderate", <<>>)

\* What chrome.storage.sync can hold in the model.
StoredSettings ==
  {Settings("moderate", "moderate", <<>>),
   Settings("moderate", "moderate", <<HostPlain>>),
   Settings("moderate", "moderate", <<HostSub>>)}

\* isAllowlisted: some entry includes the hostname or is included in it.
isAllowlisted(settings, host) ==
  \E i \in 1..Len(settings.allowlist) :
    \/ Includes(host, settings.allowlist[i])
    \/ Includes(settings.allowlist[i], host)

\* getThreshold, in hundredths: thresholds[type][level] || 0.6
getThreshold(settings, type) ==
  LET level == settings.filteringLevel
  IN IF type = "text"
     THEN CASE level = "mild" -> 80 [] level = "moderate" -> 60
            [] level = "strict" -> 40 [] OTHER -> 60
     ELSE CASE level = "mild" -> 70 [] level = "moderate" -> 50
            [] level = "strict" -> 30 [] OTHER -> 60

\* The nodes of the page that match a selector of the scanner.  Node 1 is a
\* <p> under <body>, there when the content script starts (on a Google
\* results page it is a result, matching '#search .g').  An even node is a
\* <div> with text of its own, which a script of the page attaches to <body>
\* later; the odd node after it is an <img> inside that <div>.
Nodes == 1..NumNodes

\* The placeholder createReplacementElement builds for node n: its container
\* <div class="ai-firewall-blocked"> and, inside it, the <div> with the
\* message (the other <div>s inside behave like it).
Container(n) == NumNodes + n

Message(n) == 2 * NumNodes + n

IsContainer(n) == NumNodes < n /\ n <= 2 * NumNodes

IsMessage(n) == 2 * NumNodes < n

\* The elements selectors can match: the nodes and their placeholders.
Elements == 1..(3 * NumNodes)

NodeTag(n) ==
  IF n > NumNodes THEN "div"
  ELSE IF n = 1 THEN "p" ELSE IF n % 2 = 0 THEN "div" ELSE "img"

\* parentNode, 0 for <body>.  A container has the place of its node.
RECURSIVE NodeParent(_)
NodeParent(n) ==
  IF IsMessage(n) THEN n - NumNodes
  ELSE IF IsContainer(n) THEN NodeParent(n - NumNodes)
  ELSE IF NodeTag(n) = "img" THEN n - 1 ELSE 0

\* textSelectors and imageSelectors, as far as they match tags.
TextTags ==
  {"p", "div", "span", "h1", "h2", "h3", "h4", "h5", "h6", "article",
   "section", "main", "aside", "blockquote", "li", "td", "th", "caption",
   "figcaption"}

ImageTags == {"img", "picture", "svg"}

\* The selectors of scanGoogleSearchResults match node 1 (once).
MatchesGoogleSelector(n) == n = 1

\* extractText: the length of textContent.trim() and whether it has a letter.
extractText(n) ==
  CASE NodeTag(n) = "p" -> [length |-> 24, alpha |-> TRUE]
    [] NodeTag(n) = "div" -> [length |-> 11, alpha |-> TRUE]
    [] OTHER -> [length |-> 0, alpha |-> FALSE]

shouldAnalyzeText(text) ==
  IF text.length < 5 \/ text.length > 5000 THEN FALSE
  ELSE IF ~text.alpha THEN FALSE
  ELSE TRUE

\* src / srcset, width and height of an element.
ImageOf(n) ==
  IF NodeTag(n) = "img" THEN [src |-> TRUE, width |-> 100, height |-> 100]
  ELSE [src |-> FALSE, width |-> 0, height |-> 0]

shouldAnalyzeImage(n) ==
  IF ~ImageOf(n).src THEN FALSE
  ELSE IF ImageOf(n).width < 50 \/ ImageOf(n).height < 50 THEN FALSE
  ELSE TRUE

\* dom: the sets of nodes that
\*   attached  : are children of <body> (the top-level nodes)
\*   processed : carry data-ai-firewall-processed
\*   safe      : carry the class ai-firewall-safe
\*   blurred   : carry the class ai-firewall-blurred
\*   replaced  : are out of the tree, a placeholder in their place
\*   hidden    : have style.display = 'none'
\*   blurHandler : have the click listener removeBlur of blurContent
\*   showButton  : have the "Show hidden" button of hideContent before them
InitDom ==
  [attached |-> {1}, processed |-> {}, safe |-> {}, blurred |-> {},
   replaced |-> {}, hidden |-> {}, blurHandler |-> {}, showButton |-> {}]

\* n is a child of NodeParent(n) in the tree as it is now: a node unless it
\* is replaced, a placeholder while its node is replaced.
LinkedToParent(d, n) ==
  IF IsMessage(n) THEN (n - 2 * NumNodes) \in d.replaced
  ELSE IF IsContainer(n) THEN (n - NumNodes) \in d.replaced
  ELSE n \notin d.replaced

RECURSIVE InDocument(_, _)
InDocument(d, n) ==
  /\ LinkedToParent(d, n)
  /\ IF NodeParent(n) = 0
     THEN (IF IsContainer(n) THEN n - NumNodes ELSE n) \in d.attached
     ELSE InDocument(d, NodeParent(n))

\* (mutant) ignoreSelectors without '.ai-firewall-blocked'.
MatchesIgnoreSelectorsSafeOnly(d, n) == n \in d.safe

\* element.matches(ignoreSelectors.join(',')): the class ai-firewall-safe or
\* ai-firewall-blocked (the tag selectors match no element of the model).
MatchesIgnoreSelectors(d, n) == n \in d.safe \/ IsContainer(n)

\* element.closest(ignoreSelectors.join(',')): the element or an ancestor
\* matches.
RECURSIVE ClosestIgnored(_, _)
ClosestIgnored(d, n) ==
  \/ MatchesIgnoreSelectors(d, n)
  \/ (NodeParent(n) # 0 /\ LinkedToParent(d, n)
        /\ ClosestIgnored(d, NodeParent(n)))

\* (mutant) shouldIgnoreElement without the data-ai-firewall-processed test.
shouldIgnoreElementNoMark(d, n) ==
  IF ClosestIgnored(d, n) THEN TRUE
  ELSE IF n \in d.hidden THEN TRUE
  ELSE FALSE

shouldIgnoreElement(d, n) ==
  IF ClosestIgnored(d, n) THEN TRUE
  ELSE IF n \in d.processed THEN TRUE
  ELSE IF n \in d.hidden THEN TRUE
  ELSE FALSE

\* The nodes strictly inside root, for root.querySelectorAll.
RECURSIVE IsInside(_, _, _)
IsInside(d, n, root) ==
  /\ NodeParent(n) # 0
  /\ LinkedToParent(d, n)
  /\ (NodeParent(n) = root \/ IsInside(d, NodeParent(n), root))

\* A set of nodes in document order.
RECURSIVE InOrder(_)
InOrder(S) ==
  IF S = {} THEN <<>>
  ELSE LET m == CHOOSE x \in S : \A y \in S : x <= y
       IN <<m>> \o InOrder(S \ {m})

(***************************************************************************)
(* ContentScanner.                                                          *)
(***************************************************************************)
ScannerIds == 1..MaxScanners

\* phase: "none" (not constructed), "loading" (init awaits loadSettings),
\* "ready" (init returned), "failed" (init threw).  observer: the
\* MutationObserver is set and connected.  interval: the setInterval of
\* continuousScanning is set.
Scanner(phase, settings, isScanning, queue, observer, interval) ==
  [phase |-> phase, settings |-> settings, isScanning |-> isScanning,
   scanQueue |-> queue, observer |-> observer, interval |-> interval]

NoScanner == Scanner("none", NoSettings, FALSE, <<>>, FALSE, FALSE)

\* new ContentScanner(), up to the await inside loadSettings.
NewScanner == Scanner("loading", NoSettings, FALSE, <<>>, FALSE, FALSE)

Bump(n) == Min(n + 1, 2)

\* What a synchronous pass of the scanner reads and writes: the dom, the
\* scanners, the suspended analyses and the two counters.
Page(d, sc, rq, qd, st) ==
  [dom |-> d, scanners |-> sc, requests |-> rq, queued |-> qd, sent |-> st]

\* A suspended analysis: pc "loading" awaits getImageData, "sent" awaits the
\* reply to ANALYZE_TEXT / ANALYZE_IMAGE.
Request(s, n, type, pc) == [scanner |-> s, node |-> n, type |-> type, pc |-> pc]

\* (mutant) processQueue that starts the analysis without marking the
\* element first.
processQueueUnmarked(pg, s) ==
  LET q == pg.scanners[s].scanQueue IN
  IF Len(q) = 0 THEN pg
  ELSE LET item == Head(q)
           n == item.element
           sc == [pg.scanners EXCEPT ![s].scanQueue = Tail(q)]
       IN IF item.type = "text"
          THEN Page(pg.dom, sc,
                    pg.requests \cup {Request(s, n, "text", "sent")},
                    pg.queued, [pg.sent EXCEPT ![n] = Bump(@)])
          ELSE Page(pg.dom, sc,
                    pg.requests \cup {Request(s, n, "image", "loading")},
                    pg.queued, pg.sent)

\* processQueue up to its await: shift an item, mark its element, start its
\* analysis.  analyzeText sends its message at once; analyzeImage first
\* awaits getImageData.
processQueue(pg, s) ==
  LET q == pg.scanners[s].scanQueue IN
  IF Len(q) = 0 THEN pg
  ELSE LET item == Head(q)
           n == item.element
           marked == [pg.dom EXCEPT !.processed = @ \cup {n}]
           sc == [pg.scanners EXCEPT ![s].scanQueue = Tail(q)]
       IN IF item.type = "text"
          THEN Page(marked, sc,
                    pg.requests \cup {Request(s, n, "text", "sent")},
                    pg.queued, [pg.sent EXCEPT ![n] = Bump(@)])
          ELSE Page(marked, sc,
                    pg.requests \cup {Request(s, n, "image", "loading")},
                    pg.queued, pg.sent)

queueTextAnalysis(pg, s, n) ==
  processQueue(
    [pg EXCEPT !.scanners[s].scanQueue =
                 Append(@, [type |-> "text", element |-> n]),
               !.queued[n] = Bump(@)], s)

queueImageAnalysis(pg, s, n) ==
  processQueue(
    [pg EXCEPT !.scanners[s].scanQueue =
                 Append(@, [type |-> "image", element |-> n]),
               !.queued[n] = Bump(@)], s)

\* The body of the forEach of scanTextContent, scanGoogleSearchResults and
\* scanNewElement (text), and of scanImageContent and scanNewElement (images).
ScanText(pg, s, n) ==
  IF shouldIgnoreElement(pg.dom, n) THEN pg
  ELSE IF shouldAnalyzeText(extractText(n)) THEN queueTextAnalysis(pg, s, n)
  ELSE pg

ScanImage(pg, s, n) ==
  IF shouldIgnoreElement(pg.dom, n) THEN pg
  ELSE IF shouldAnalyzeImage(n) THEN queueImageAnalysis(pg, s, n)
  ELSE pg

\* The callbacks of a forEach, and the statements of a scan, run one after
\* the other, each on the page the one before it left: {F(v) : v \in {x}}
\* has x evaluated once before F is applied to it, and Only gives F(x).
Only(S) == CHOOSE y \in S : TRUE

RECURSIVE ScanAllText(_, _, _)
ScanAllText(pg, s, nodes) ==
  IF nodes = <<>> THEN pg
  ELSE Only({ScanAllText(v.page, s, v.nodes) :
               v \in {[page |-> ScanText(pg, s, Head(nodes)),
                       nodes |-> Tail(nodes)]}})

RECURSIVE ScanAllImages(_, _, _)
ScanAllImages(pg, s, nodes) ==
  IF nodes = <<>> THEN pg
  ELSE Only({ScanAllImages(v.page, s, v.nodes) :
               v \in {[page |-> ScanImage(pg, s, Head(nodes)),
                       nodes |-> Tail(nodes)]}})

\* document.querySelectorAll(selectors), in document order.
QueryText(d) ==
  InOrder({n \in Elements : NodeTag(n) \in TextTags /\ InDocument(d, n)})

QueryImages(d) ==
  InOrder({n \in Elements : NodeTag(n) \in ImageTags /\ InDocument(d, n)})

QueryGoogle(d) ==
  InOrder({n \in Elements : MatchesGoogleSelector(n) /\ InDocument(d, n)})

scanTextContent(pg, s) == ScanAllText(pg, s, QueryText(pg.dom))

scanImageContent(pg, s) == ScanAllImages(pg, s, QueryImages(pg.dom))

scanGoogleSearchResults(pg, s) == ScanAllText(pg, s, QueryGoogle(pg.dom))

scanExistingContent(pg, s, host) ==
  LET Google(text) == IF Includes(host, GoogleDot)
                      THEN scanGoogleSearchResults(text, s) ELSE text
  IN Only({scanImageContent(google, s) :
             google \in {Google(text) : text \in {scanTextContent(pg, s)}}})

\* scanNewElement: element.querySelectorAll, which leaves out the element.
scanNewElement(pg, s, root) ==
  LET text == ScanAllText(pg, s,
                InOrder({n \in Elements : NodeTag(n) \in TextTags
                                         /\ IsInside(pg.dom, n, root)}))
  IN Only({ScanAllImages(v, s,
             InOrder({n \in Elements : NodeTag(n) \in ImageTags
                                      /\ IsInside(v.dom, n, root)})) :
             v \in {text}})

\* The callback of the MutationObserver of every scanner that has one
\* connected, for one added node.
RECURSIVE ObserversScan(_, _, _)
ObserversScan(pg, ids, root) ==
  IF ids = <<>> THEN pg
  ELSE LET s == Head(ids)
       IN ObserversScan(IF pg.scanners[s].observer
                        THEN scanNewElement(pg, s, root) ELSE pg,
                        Tail(ids), root)

\* The records of a task that added the nodes `added` under <body>: the
\* callbacks run when the task has ended, on the tree it left.
RECURSIVE MutationsReported(_, _)
MutationsReported(pg, added) ==
  IF added = <<>> THEN pg
  ELSE MutationsReported(ObserversScan(pg, InOrder(ScannerIds), Head(added)),
                         Tail(added))

\* startScanning, for a scanner whose settings are loaded (not null).
startScanning(pg, s, host) ==
  IF pg.scanners[s].isScanning THEN pg
  ELSE LET on == [pg EXCEPT !.scanners[s].isScanning = TRUE]
       IN IF isAllowlisted(on.scanners[s].settings, host) THEN on
          ELSE [scanExistingContent(on, s, host)
                  EXCEPT !.scanners[s].interval = TRUE]

\* setupMutationObserver
setupMutationObserver(pg, s) == [pg EXCEPT !.scanners[s].observer = TRUE]

\* destroy(): disconnect the observer if there is one, isScanning = false,
\* scanQueue = []. The interval of continuousScanning is not cleared.
destroy(sc) ==
  [sc EXCEPT !.observer = FALSE, !.isScanning = FALSE, !.scanQueue = <<>>]

CurrentPage == Page(dom, scanners, requests, queued, sent)

SetPage(pg) ==
  \E next \in {pg} :
    /\ dom' = next.dom
    /\ scanners' = next.scanners
    /\ requests' = next.requests
    /\ queued' = next.queued
    /\ sent' = next.sent

(***************************************************************************)
(* DOMManipulator.                                                          *)
(***************************************************************************)
Has(cats, label) == \E i \in 1..Len(cats) : cats[i] = label

\* (mutant) getBlockingMethod hiding what it is least sure about.
getBlockingMethodHideLow(type, analysisResult) ==
  LET confidence == analysisResult.confidence
      flaggedCategories == analysisResult.flagged_categories
  IN IF confidence > 80 \/ Has(flaggedCategories, "severe_toxic")
     THEN "replace"
     ELSE IF confidence > 60 THEN "blur"
     ELSE "hide"

\* getBlockingMethod, confidence in hundredths.
getBlockingMethod(type, analysisResult) ==
  LET confidence == analysisResult.confidence
      flaggedCategories == analysisResult.flagged_categories
  IN IF confidence > 80 \/ Has(flaggedCategories, "severe_toxic")
     THEN "replace"
     ELSE IF confidence > 60 THEN "blur"
     ELSE "replace"

\* categoryLabels[cat] || cat
CategoryLabel(cat) ==
  CASE cat = "toxic" -> "Toxic language"
    [] cat = "severe_toxic" -> "Severely toxic content"
    [] cat = "obscene" -> "Obscene content"
    [] cat = "threat" -> "Threatening language"
    [] cat = "insult" -> "Insulting content"
    [] cat = "identity_hate" -> "Hate speech"
    [] cat = "nsfw" -> "Adult content"
    [] cat = "violence" -> "Violent content"
    [] cat = "drugs" -> "Drug-related content"
    [] cat = "weapons" -> "Weapon-related content"
    [] OTHER -> cat

\* getBlockingReason: the reason as the phrases that join(', ') strings
\* together.
getBlockingReason(analysisResult) ==
  LET categories == analysisResult.flagged_categories
  IN IF Len(categories) = 0 THEN <<"Potentially inappropriate content">>
     ELSE [i \in 1..Len(categories) |-> CategoryLabel(categories[i])]

\* element.parentNode is not null.
HasParent(d, n) == n \notin d.replaced /\ (NodeParent(n) # 0 \/ n \in d.attached)

\* element.parentNode.replaceChild of replaceContent throws a TypeError:
\* the method is 'replace' and the element has no parent.
ReplaceThrows(d, n, method) == method \notin {"blur", "hide"} /\ ~HasParent(d, n)

\* replaceContent: the placeholder takes the element's place in the tree.
replaceContent(d, n) == [d EXCEPT !.replaced = @ \cup {n}]

blurContent(d, n) ==
  [d EXCEPT !.blurred = @ \cup {n}, !.blurHandler = @ \cup {n}]

hideContent(d, n) ==
  [d EXCEPT !.hidden = @ \cup {n}, !.showButton = @ \cup {n}]

\* The switch of handleUnsafeContent: what the chosen method does to the dom.
ApplyBlocking(d, n, method) ==
  CASE method = "replace" -> replaceContent(d, n)
    [] method = "blur" -> blurContent(d, n)
    [] method = "hide" -> hideContent(d, n)
    [] OTHER -> replaceContent(d, n)

\* The verdicts a reply to the page can carry, confidence in hundredths.
PageVerdicts ==
  {Verdict(TRUE, 10, <<>>)}
    \cup {Verdict(FALSE, c, cats) :
            c \in {30, 60, 65, 80, 85},
            cats \in {<<>>, <<"severe_toxic">>}}
    \cup {Verdict(FALSE, 85, <<"severe">>)}

\* The replies sendMessage can resolve with: nothing at all (undefined),
\* { success: false, error }, { success: true, result }.
Reply(kind, result) == [kind |-> kind, result |-> result]

Replies ==
  {Reply("undefined", NoVerdict), Reply("error", NoVerdict)}
    \cup {Reply("result", v) : v \in PageVerdicts}

\* The replies that differ in what analyzeText and handleUnsafeContent do
\* with them: none, a failure, a safe verdict, an unsafe verdict that is
\* blurred and one that is replaced.
PageReplies ==
  {Reply("undefined", NoVerdict), Reply("error", NoVerdict),
   Reply("result", Verdict(TRUE, 10, <<>>)),
   Reply("result", Verdict(FALSE, 65, <<>>)),
   Reply("result", Verdict(FALSE, 85, <<>>))}

\* (mutant) The test of analyzeText and analyzeImage without response.success.
ReplyIsUnsafeNoSuccess(resp) == ~resp.result.is_safe \/ resp.kind = "error"

\* (mutant) The test without the verdict's is_safe.
ReplyIsUnsafeAnyVerdict(resp) == resp.kind = "result"

\* response.success && !response.result.is_safe
ReplyIsUnsafe(resp) == resp.kind = "result" /\ ~resp.result.is_safe

\* Reading response.success of an undefined response throws a TypeError.
ReplyThrows(resp) == resp.kind = "undefined"

\* What leaves processQueue of what the analysis threw: the catch of
\* analyzeImage, or else the catch of processQueue, takes it all.
processQueueRejects(threw) == IF threw THEN FALSE ELSE FALSE

PageEvent(op, node, result, method) ==
  [op |-> op, node |-> node, result |-> result, method |-> method]

NoPageEvent == PageEvent("none", 0, NoVerdict, "none")

(***************************************************************************)
(* The page: one action per task of the content script's event loop.        *)
(***************************************************************************)
\* The document is loaded from a host and initialize() runs: a
\* DOMManipulator and the first ContentScanner are constructed, unless
\* shouldSkipPage() makes it return first.
initialize(host) ==
  /\ hostname = <<>>
  /\ hostname' = host
  /\ IF shouldSkipPage(host)
     THEN /\ UNCHANGED <<scanners, contentScanner>>
          /\ pgEvent' = PageEvent("skipped", 0, NoVerdict, "none")
     ELSE /\ scanners' = [scanners EXCEPT ![1] = NewScanner]
          /\ contentScanner' = 1
          /\ pgEvent' = PageEvent("initialize", 0, NoVerdict, "none")
  /\ UNCHANGED <<storage, dom, requests, blockedElements,
                 replacementElements, queued, sent, unhandled, scriptVars, swVars>>

\* The settings in chrome.storage.sync are changed (options page, popup).
StorageSet(settings) ==
  /\ storage # settings
  /\ storage' = settings
  /\ pgEvent' = PageEvent("storage", 0, NoVerdict, "none")
  /\ UNCHANGED <<hostname, dom, scanners, contentScanner, requests,
                 blockedElements, replacementElements, queued, sent,
                 unhandled, scriptVars, swVars>>

\* PopupManager.toggleFiltering(enabled): the change listener of the main
\* toggle, which updateStatus keeps checked unless the level is 'disabled'.
\* The popup holds the stored settings, writes them back with the new level
\* (UPDATE_SETTINGS, chrome.storage.sync.set) and notifies the tab it was
\* opened on, which is not this one.
PopupToggleFiltering(enabled) ==
  /\ enabled = (storage.filteringLevel = "disabled")
  /\ storage' = [storage EXCEPT
                   !.filteringLevel = IF enabled THEN "moderate" ELSE "disabled"]
  /\ levelBeforeOff' = IF enabled THEN levelBeforeOff
                       ELSE storage.filteringLevel
  /\ pgEvent' = PageEvent(IF enabled THEN "popupOn" ELSE "popupOff", 0,
                          NoVerdict, "none")
  /\ UNCHANGED <<hostname, dom, scanners, contentScanner, requests,
                 blockedElements, replacementElements, queued, sent,
                 unhandled, isEnabled, paused, updated, absentKeys, swVars>>

\* PopupManager.updateFilterLevel(level): a radio button of the popup.
PopupUpdateFilterLevel(level) ==
  /\ storage.filteringLevel # level
  /\ storage' = [storage EXCEPT !.filteringLevel = level]
  /\ pgEvent' = PageEvent("popupLevel", 0, NoVerdict, "none")
  /\ UNCHANGED <<hostname, dom, scanners, contentScanner, requests,
                 blockedElements, replacementElements, queued, sent,
                 unhandled, scriptVars, swVars>>

\* Object.keys(defaults) of setDefaultSettings.
DefaultKeys ==
  {"filteringLevel", "ageGroup", "enabledCategories", "allowlist",
   "parentalMode"}

\* The keys whose values the model follows.
ValueKeys == DOMAIN DefaultSettings

\* The tab, and what the popup remembers: all of the page but the stored
\* settings.
tabVars == <<hostname, dom, scanners, contentScanner, requests,
             blockedElements, replacementElements, queued, sent, unhandled,
             pgEvent, isEnabled, paused, updated, levelBeforeOff>>

\* The onInstalled listener suspended inside setDefaultSettings, with the
\* toSet it has built (empty until the get has resolved).
DefaultsHandler(pc, toSet) == [pc |-> pc, toSet |-> toSet]

DefaultsPending ==
  \E h \in BagToSet(handlers) : h.pc \in {"defaultsGet", "defaultsSet"}

\* chrome.runtime.onInstalled fires and its listener runs up to the await of
\* chrome.storage.sync.get.  A new installation ('install') has nothing
\* stored; an 'update' finds what the version before left.
onInstalled(reason) ==
  /\ ~DefaultsPending
  /\ handlers' = handlers (+) SetToBag({DefaultsHandler("defaultsGet", {})})
  /\ absentKeys' = IF reason = "install" THEN DefaultKeys ELSE absentKeys
  /\ swEvent' = Event("installed", NoVerdict)
  /\ UNCHANGED <<analysisCache, pendingRequests, now, totalScanned,
                 classified, storage, tabVars>>

\* The loop of setDefaultSettings over existing: the keys not in it.
ToSet(absent) == {key \in DefaultKeys : key \in absent}

\* The get of setDefaultSettings resolves.  With nothing to set the function
\* returns and the listener ends with analysisCache.clear(); else the
\* listener is suspended at the await of chrome.storage.sync.set.
DefaultsGet ==
  \E h \in BagToSet(handlers) :
    /\ h.pc = "defaultsGet"
    /\ IF ToSet(absentKeys) = {}
       THEN /\ handlers' = handlers (-) SetToBag({h})
            /\ analysisCache' = <<>>
            /\ swEvent' = Event("defaultsKept", NoVerdict)
       ELSE /\ handlers' = (handlers (-) SetToBag({h}))
                             (+) SetToBag({DefaultsHandler(
                                             "defaultsSet",
                                             ToSet(absentKeys))})
            /\ analysisCache' = analysisCache
            /\ swEvent' = Event("defaultsRead", NoVerdict)
    /\ UNCHANGED <<pendingRequests, now, totalScanned, classified, pageVars>>

\* chrome.storage.sync.set(items): the keys of items get their values, the
\* other keys stay.
StorageSyncSet(stored, keys, items) ==
  [key \in DOMAIN stored |-> IF key \in keys THEN items[key] ELSE stored[key]]

\* The set of setDefaultSettings resolves: toSet is stored, and the
\* listener ends with analysisCache.clear().
DefaultsSet ==
  \E h \in BagToSet(handlers) :
    /\ h.pc = "defaultsSet"
    /\ storage' = StorageSyncSet(storage, h.toSet \cap ValueKeys,
                                 DefaultSettings)
    /\ absentKeys' = absentKeys \ h.toSet
    /\ handlers' = handlers (-) SetToBag({h})
    /\ analysisCache' = <<>>
    /\ swEvent' = Event("defaultsWritten", NoVerdict)
    /\ UNCHANGED <<pendingRequests, now, totalScanned, classified, tabVars>>

\* The objects UPDATE_SETTINGS carries in SpecInstall: one key from the
\* popup's radio buttons, and all the keys from the options page.
UpdateData ==
  {[filteringLevel |-> "strict"],
   [ageGroup |-> "strict"],
   [filteringLevel |-> "mild", ageGroup |-> "mild", allowlist |-> <<>>,
    enabledCategories |-> <<>>, parentalMode |-> TRUE]}

\* handleUpdateSettings(data): chrome.storage.sync.set(data), then
\* sendResponse({ success: true }).
handleUpdateSettings(data) ==
  /\ storage' = StorageSyncSet(storage, DOMAIN data \cap ValueKeys, data)
  /\ absentKeys' = absentKeys \ DOMAIN data
  /\ swEvent' = Event("settingsUpdated", NoVerdict)
  /\ UNCHANGED <<analysisCache, pendingRequests, now, handlers, totalScanned,
                 classified, tabVars>>

\* init() resumes after loadSettings: the reply to GET_SETTINGS arrived
\* (with the stored settings, with success false, or undefined).  With
\* settings still null startScanning (past its isScanning test) throws in
\* isAllowlisted, init rejects and no observer is set up.
SettingsLoaded(s, kind) ==
  /\ scanners[s].phase = "loading"
  /\ LET loaded == CASE kind = "result" -> storage
                     [] kind = "error" -> DefaultSettings
                     [] OTHER -> scanners[s].settings
         pg == [CurrentPage EXCEPT !.scanners[s].settings = loaded]
     IN IF loaded = NoSettings /\ ~scanners[s].isScanning
        THEN /\ SetPage([pg EXCEPT
                           !.scanners[s].phase = "failed",
                           !.scanners[s].isScanning = TRUE])
             /\ unhandled' = unhandled \cup {"init"}
             /\ pgEvent' = PageEvent("initFailed", 0, NoVerdict, "none")
        ELSE /\ SetPage([setupMutationObserver(
                           startScanning(pg, s, hostname), s)
                           EXCEPT !.scanners[s].phase = "ready"])
             /\ unhandled' = unhandled
             /\ pgEvent' = PageEvent("init", 0, NoVerdict, "none")
  /\ UNCHANGED <<hostname, storage, contentScanner, blockedElements,
                 replacementElements, scriptVars, swVars>>

\* The callback of setInterval in continuousScanning.
IntervalFire(s) ==
  /\ scanners[s].interval
  /\ SetPage(IF ~isAllowlisted(scanners[s].settings, hostname)
             THEN scanExistingContent(CurrentPage, s, hostname)
             ELSE CurrentPage)
  /\ pgEvent' = PageEvent("interval", 0, NoVerdict, "none")
  /\ UNCHANGED <<hostname, storage, contentScanner, blockedElements,
                 replacementElements, unhandled, scriptVars, swVars>>

\* A script of the page appends an element to <body>; the observers that
\* are connected get it as an added node.
PageInsert(root) ==
  /\ hostname # <<>>
  /\ NodeParent(root) = 0
  /\ root \notin dom.attached
  /\ SetPage(ObserversScan(
               [CurrentPage EXCEPT !.dom.attached = @ \cup {root}],
               InOrder(ScannerIds), root))
  /\ pgEvent' = PageEvent("inserted", root, NoVerdict, "none")
  /\ UNCHANGED <<hostname, storage, contentScanner, blockedElements,
                 replacementElements, unhandled, scriptVars, swVars>>

\* A script of the page removes an element of its own from <body>; the
\* observers read addedNodes only.
PageRemove(root) ==
  /\ NodeParent(root) = 0
  /\ root \in dom.attached
  /\ root \notin dom.replaced
  /\ dom' = [dom EXCEPT !.attached = @ \ {root}]
  /\ pgEvent' = PageEvent("removed", root, NoVerdict, "none")
  /\ UNCHANGED <<hostname, storage, scanners, contentScanner, requests,
                 blockedElements, replacementElements, queued, sent,
                 unhandled, scriptVars, swVars>>

\* getImageData settles: onload resolves and analyzeImage sends
\* ANALYZE_IMAGE; onerror (or a tainted canvas) rejects, which the catch of
\* analyzeImage takes.
ImageLoaded(r, ok) ==
  /\ r \in requests
  /\ r.pc = "loading"
  /\ IF ok
     THEN /\ requests' = (requests \ {r})
                           \cup {Request(r.scanner, r.node, r.type, "sent")}
          /\ sent' = [sent EXCEPT ![r.node] = Bump(@)]
          /\ pgEvent' = PageEvent("imageLoaded", r.node, NoVerdict, "none")
     ELSE /\ requests' = requests \ {r}
          /\ sent' = sent
          /\ pgEvent' = PageEvent("imageFailed", r.node, NoVerdict, "none")
  /\ UNCHANGED <<hostname, storage, dom, scanners, contentScanner,
                 blockedElements, replacementElements, queued, unhandled,
                 scriptVars, swVars>>

\* The reply to ANALYZE_TEXT / ANALYZE_IMAGE arrives: the rest of
\* analyzeText or analyzeImage, handleUnsafeContent of the scanner (the
\* event) and of the DOMManipulator (its listener), the end of processQueue.
AnalyzeReply(r, resp) ==
  /\ r \in requests
  /\ r.pc = "sent"
  /\ LET rest == [CurrentPage EXCEPT !.requests = @ \ {r}]
     IN IF ReplyThrows(resp)
        THEN /\ unhandled' = unhandled \cup
                  (IF processQueueRejects(TRUE) THEN {"processQueue"} ELSE {})
             /\ pgEvent' = PageEvent("replyUndefined", r.node, NoVerdict,
                                     "none")
             /\ SetPage(rest)
             /\ UNCHANGED <<blockedElements, replacementElements>>
        ELSE IF ~ReplyIsUnsafe(resp)
        THEN /\ pgEvent' = PageEvent(IF resp.kind = "error" THEN "replyError"
                                     ELSE "replySafe",
                                     r.node, resp.result, "none")
             /\ SetPage(rest)
             /\ UNCHANGED <<blockedElements, replacementElements, unhandled>>
        ELSE IF r.node \in blockedElements
        THEN /\ pgEvent' = PageEvent("alreadyBlocked", r.node, resp.result,
                                     "none")
             /\ SetPage(rest)
             /\ UNCHANGED <<blockedElements, replacementElements, unhandled>>
        ELSE IF ReplaceThrows(dom, r.node,
                              getBlockingMethod(r.type, resp.result))
        THEN /\ blockedElements' = blockedElements \cup {r.node}
             /\ replacementElements' = replacementElements \cup {r.node}
             /\ SetPage(rest)
             /\ pgEvent' = PageEvent("blockThrew", r.node, resp.result,
                                     "replace")
             /\ unhandled' = unhandled
        ELSE LET method == getBlockingMethod(r.type, resp.result)
                 blocked == [rest EXCEPT
                               !.dom = ApplyBlocking(dom, r.node, method)]
             IN /\ blockedElements' = blockedElements \cup {r.node}
                /\ SetPage(IF method \in {"blur", "hide"} THEN blocked
                           ELSE MutationsReported(blocked,
                                                  <<Container(r.node)>>))
                /\ replacementElements' =
                     IF method \in {"blur", "hide"} THEN replacementElements
                     ELSE replacementElements \cup {r.node}
                /\ pgEvent' = PageEvent("blocked", r.node, resp.result,
                                        method)
                /\ unhandled' = unhandled
  /\ UNCHANGED <<hostname, storage, contentScanner, scriptVars, swVars>>

\* rescanPage and updateSettings do the same: destroy the scanner and
\* construct a new one.
Recreate(op) ==
  /\ contentScanner # 0
  /\ contentScanner < MaxScanners
  /\ scanners' = [scanners EXCEPT
                    ![contentScanner] = destroy(@),
                    ![contentScanner + 1] = NewScanner]
  /\ contentScanner' = contentScanner + 1
  /\ pgEvent' = PageEvent(op, 0, NoVerdict, "none")
  /\ updated' = (updated \/ (op = "update"
                               /\ scanners[contentScanner].phase = "ready"))
  /\ UNCHANGED <<hostname, storage, dom, requests, blockedElements,
                 replacementElements, queued, sent, unhandled, isEnabled,
                 paused, levelBeforeOff, absentKeys, swVars>>

\* RESCAN_PAGE
rescanPage == Recreate("rescan")

\* UPDATE_SETTINGS
updateSettings == Recreate("update")

NextPage ==
  \/ \E host \in Hostnames : initialize(host)
  \/ \E settings \in StoredSettings : StorageSet(settings)
  \/ \E s \in ScannerIds, kind \in {"result", "error", "undefined"} :
       SettingsLoaded(s, kind)
  \/ \E s \in ScannerIds : IntervalFire(s)
  \/ \E root \in Nodes : PageInsert(root)
  \/ \E r \in requests, ok \in BOOLEAN : ImageLoaded(r, ok)
  \/ \E r \in requests, resp \in PageReplies : AnalyzeReply(r, resp)
  \/ rescanPage
  \/ updateSettings

(***************************************************************************)
(* The DOMManipulator's listeners and the commands that reach it.           *)
(***************************************************************************)
\* initialize() has run to its end: the listeners of the content script
\* (messages, keyboard, visibility) are registered.
listening == hostname # <<>> /\ ~shouldSkipPage(hostname)

\* The scanners constructed so far; the next one gets the next id.
Constructed == {s \in ScannerIds : scanners[s].phase # "none"}

\* The DOMManipulator exists: initialize() built it, or, on a page
\* initialize() skipped, the toggleFiltering(true) that constructed the
\* page's first scanner did.
domManipulator ==
  hostname # <<>> /\ (~shouldSkipPage(hostname) \/ Constructed # {})

\* The tree n is in has been appended to <body> (n itself, or an element
\* around it, may have been replaced since).
RECURSIVE Inserted(_, _)
Inserted(d, n) ==
  IF NodeParent(n) = 0 THEN n \in d.attached ELSE Inserted(d, NodeParent(n))

\* The placeholder standing for n is in the document.
PlaceholderInDocument(d, n) ==
  /\ n \in d.replaced
  /\ IF NodeParent(n) = 0 THEN n \in d.attached
     ELSE InDocument(d, NodeParent(n))

\* (mutant) handleUnsafeContent without its guard.
AlreadyHandledNever(blocked, n) == FALSE

\* if (this.blockedElements.has(element)) return;
AlreadyHandled(blocked, n) == n \in blocked

\* The listener of 'ai-firewall-unsafe-content' runs for a detail
\* { element, type, analysisResult }, whoever dispatched the event, about
\* an element of the page.
handleUnsafeContent(n, type, analysisResult) ==
  /\ domManipulator
  /\ Inserted(dom, n)
  /\ n \in blockedElements \/ HasParent(dom, n)
  /\ IF AlreadyHandled(blockedElements, n)
     THEN /\ pgEvent' = PageEvent("alreadyBlocked", n, analysisResult, "none")
          /\ UNCHANGED <<dom, scanners, requests, queued, sent,
                         blockedElements, replacementElements>>
     ELSE LET method == getBlockingMethod(type, analysisResult)
              blocked == [CurrentPage EXCEPT
                            !.dom = ApplyBlocking(dom, n, method)]
          IN /\ blockedElements' = blockedElements \cup {n}
             /\ SetPage(IF method \in {"blur", "hide"} THEN blocked
                        ELSE MutationsReported(blocked, <<Container(n)>>))
             /\ replacementElements' =
                  IF method \in {"blur", "hide"} THEN replacementElements
                  ELSE replacementElements \cup {n}
             /\ pgEvent' = PageEvent("blocked", n, analysisResult, method)
  /\ UNCHANGED <<hostname, storage, contentScanner, unhandled, scriptVars,
                 swVars>>

\* "Show Content" is clicked on the placeholder of n and confirm() answers.
\* The original goes back and gets the class ai-firewall-safe in the same
\* task, so the observers see it marked.
showOriginalContent(n, confirmed) ==
  /\ PlaceholderInDocument(dom, n)
  /\ IF confirmed
     THEN /\ SetPage(MutationsReported(
                       [CurrentPage EXCEPT !.dom.replaced = @ \ {n},
                                           !.dom.safe = @ \cup {n}],
                       <<n>>))
          /\ replacementElements' = replacementElements \ {n}
          /\ blockedElements' = blockedElements \ {n}
          /\ pgEvent' = PageEvent("revealed", n, NoVerdict, "none")
     ELSE /\ pgEvent' = PageEvent("declined", n, NoVerdict, "none")
          /\ UNCHANGED <<dom, scanners, requests, queued, sent,
                         replacementElements, blockedElements>>
  /\ UNCHANGED <<hostname, storage, contentScanner, unhandled, scriptVars,
                 swVars>>

\* (mutant) The removeBlur listener that does not mark the element safe.
removeBlurNotMarked(n) ==
  /\ n \in dom.blurHandler
  /\ InDocument(dom, n)
  /\ dom' = [dom EXCEPT !.blurred = @ \ {n}, !.blurHandler = @ \ {n}]
  /\ blockedElements' = blockedElements \ {n}
  /\ pgEvent' = PageEvent("unblurred", n, NoVerdict, "none")
  /\ UNCHANGED <<hostname, storage, scanners, contentScanner, requests,
                 replacementElements, queued, sent, unhandled, scriptVars,
                 swVars>>

\* (mutant) The removeBlur listener that leaves the blur class on the element.
removeBlurKeepsClass(n) ==
  /\ n \in dom.blurHandler
  /\ InDocument(dom, n)
  /\ dom' = [dom EXCEPT !.blurHandler = @ \ {n}, !.safe = @ \cup {n}]
  /\ blockedElements' = blockedElements \ {n}
  /\ pgEvent' = PageEvent("unblurred", n, NoVerdict, "none")
  /\ UNCHANGED <<hostname, storage, scanners, contentScanner, requests,
                 replacementElements, queued, sent, unhandled, scriptVars,
                 swVars>>

\* A click reaches an element that has the listener removeBlur.
removeBlur(n) ==
  /\ n \in dom.blurHandler
  /\ InDocument(dom, n)
  /\ dom' = [dom EXCEPT !.blurred = @ \ {n}, !.blurHandler = @ \ {n},
                        !.safe = @ \cup {n}]
  /\ blockedElements' = blockedElements \ {n}
  /\ pgEvent' = PageEvent("unblurred", n, NoVerdict, "none")
  /\ UNCHANGED <<hostname, storage, scanners, contentScanner, requests,
                 replacementElements, queued, sent, unhandled, scriptVars,
                 swVars>>

\* DOMManipulator.restoreAllContent on the dom: the originals whose
\* placeholder has a parent go back, then the elements of the document lose
\* the blur class and get their display back.
restoreAllContent(d, replacements) ==
  LET back == [d EXCEPT !.replaced =
                 @ \ {n \in replacements : n \in d.replaced}]
      clear == [back EXCEPT !.blurred = {n \in @ : ~InDocument(back, n)}]
  IN [clear EXCEPT !.hidden = {n \in @ : ~InDocument(clear, n)}]

\* The originals restoreAllContent put back under <body>: the added nodes
\* of its records.  (An original put back inside a subtree that was still
\* detached is counted too; the originals that can be nested are leaves,
\* in which scanNewElement finds nothing.)
RestoredInDocument(before, after, replacements) ==
  {n \in replacements : n \in before.replaced /\ InDocument(after, n)}

\* RESTORE_CONTENT, or Ctrl+Shift+R: restoreAllContent of the content
\* script.  Until initialize has built the DOMManipulator nothing listens
\* and nothing is restored.  The event records whether any record was
\* active when the command arrived.
RestoreContent ==
  /\ IF domManipulator
     THEN LET restored == restoreAllContent(dom, replacementElements)
          IN /\ SetPage(MutationsReported(
                          [CurrentPage EXCEPT !.dom = restored],
                          InOrder(RestoredInDocument(dom, restored,
                                                     replacementElements))))
             /\ blockedElements' = {}
             /\ replacementElements' = {}
     ELSE UNCHANGED <<dom, scanners, requests, queued, sent, blockedElements,
                      replacementElements>>
  /\ pgEvent' = PageEvent("restored", 0, NoVerdict,
                          IF blockedElements = {} /\ replacementElements = {}
                          THEN "nothing" ELSE "none")
  /\ UNCHANGED <<hostname, storage, contentScanner, unhandled, scriptVars,
                 swVars>>

\* The verdicts of the details dispatched in SpecDom.
DomVerdicts ==
  {Verdict(FALSE, 65, <<>>), Verdict(FALSE, 85, <<>>),
   Verdict(FALSE, 90, <<"hate">>)}

\* The DOMManipulator alone: the events it listens to are inputs.
NextDom ==
  \/ \E host \in Hostnames : initialize(host)
  \/ \E root \in Nodes : PageInsert(root)
  \/ \E n \in Nodes, type \in {"text", "image"}, v \in DomVerdicts :
       handleUnsafeContent(n, type, v)
  \/ \E n \in Nodes, confirmed \in BOOLEAN : showOriginalContent(n, confirmed)
  \/ \E n \in Nodes : removeBlur(n)
  \/ RestoreContent

(***************************************************************************)
(* The content script's commands: toggle, pause and resume.                 *)
(***************************************************************************)
\* The scanners destroy() has been called on: all but the current one.
Destroyed(s) == s \in Constructed /\ s # contentScanner

\* (mutant) a stop that also drops the records of the DOMManipulator.
BlockedAfterStopCleared(blocked) == {}

\* destroy() and toggleFiltering(false) do not touch the DOMManipulator.
BlockedAfterStop(blocked) == blocked

\* TOGGLE_FILTERING, Ctrl+Shift+F or a click on the page indicator:
\* toggleFiltering(enabled).  The indicator is on every page and its click
\* passes !isEnabled; the message and the shortcut need the listeners.
toggleFiltering(enabled) ==
  /\ listening \/ (hostname # <<>> /\ enabled = ~isEnabled)
  /\ isEnabled' = enabled
  /\ IF enabled
     THEN IF contentScanner = 0
          THEN /\ Cardinality(Constructed) < MaxScanners
               /\ contentScanner' = Cardinality(Constructed) + 1
               /\ scanners' = [scanners EXCEPT
                                 ![Cardinality(Constructed) + 1] = NewScanner]
          ELSE UNCHANGED <<contentScanner, scanners>>
     ELSE IF contentScanner # 0
          THEN /\ scanners' = [scanners EXCEPT ![contentScanner] = destroy(@)]
               /\ contentScanner' = 0
          ELSE UNCHANGED <<contentScanner, scanners>>
  /\ blockedElements' = BlockedAfterStop(blockedElements)
  /\ pgEvent' = IF ~enabled /\ contentScanner # 0
                THEN PageEvent("stopped", 0, NoVerdict, "none")
                ELSE pgEvent
  /\ UNCHANGED <<hostname, storage, dom, requests, replacementElements,
                 queued, sent, unhandled, paused, updated, levelBeforeOff,
                 absentKeys, swVars>>

\* visibilitychange to hidden, or blur of the window.
pauseScanning ==
  /\ listening
  /\ scanners' = IF contentScanner # 0
                 THEN [scanners EXCEPT ![contentScanner].isScanning = FALSE]
                 ELSE scanners
  /\ paused' = TRUE
  /\ UNCHANGED <<hostname, storage, dom, contentScanner, requests,
                 blockedElements, replacementElements, queued, sent,
                 unhandled, pgEvent, isEnabled, updated, levelBeforeOff,
                 absentKeys, swVars>>

\* visibilitychange to visible, or focus of the window: isScanning = true,
\* then startScanning(), which returns at its isScanning test.
resumeScanning ==
  /\ listening
  /\ IF contentScanner # 0 /\ isEnabled
     THEN SetPage(startScanning(
            [CurrentPage EXCEPT !.scanners[contentScanner].isScanning = TRUE],
            contentScanner, hostname))
     ELSE SetPage(CurrentPage)
  /\ paused' = FALSE
  /\ UNCHANGED <<hostname, storage, contentScanner, blockedElements,
                 replacementElements, unhandled, pgEvent, isEnabled,
                 updated, levelBeforeOff, absentKeys, swVars>>

\* The replies of SpecReveal, SpecDetach, SpecSkip and SpecLoad.
TabReplies ==
  {Reply("error", NoVerdict), Reply("result", Verdict(TRUE, 10, <<>>)),
   Reply("result", Verdict(FALSE, 65, <<>>)),
   Reply("result", Verdict(FALSE, 85, <<>>))}

\* The replies met while scanners are started, stopped, paused and replaced:
\* a failure, a safe verdict and an unsafe one that is replaced.
LifeReplies ==
  {Reply("error", NoVerdict), Reply("result", Verdict(TRUE, 10, <<>>)),
   Reply("result", Verdict(FALSE, 85, <<>>))}

\* The stored settings of SpecLife.
TabSettings == {DefaultSettings, Settings("strict", "strict", <<>>)}

\* The scanners and the content script's commands that start, stop, pause
\* and resume them.
NextLife ==
  \/ \E host \in Hostnames : initialize(host)
  \/ \E settings \in TabSettings : StorageSet(settings)
  \/ \E s \in ScannerIds, kind \in {"result", "error"} :
       SettingsLoaded(s, kind)
  \/ \E s \in ScannerIds : IntervalFire(s)
  \/ \E root \in Nodes : PageInsert(root)
  \/ \E r \in requests, ok \in BOOLEAN : ImageLoaded(r, ok)
  \/ \E r \in requests, resp \in LifeReplies : AnalyzeReply(r, resp)
  \/ rescanPage
  \/ updateSettings
  \/ \E enabled \in BOOLEAN : toggleFiltering(enabled)
  \/ pauseScanning
  \/ resumeScanning

\* The scanners and the DOMManipulator with the user's clicks and commands
\* that undo a blocking.
NextReveal ==
  \/ \E host \in Hostnames : initialize(host)
  \/ \E s \in ScannerIds, kind \in {"result", "error"} :
       SettingsLoaded(s, kind)
  \/ \E s \in ScannerIds : IntervalFire(s)
  \/ \E root \in Nodes : PageInsert(root)
  \/ \E r \in requests, ok \in BOOLEAN : ImageLoaded(r, ok)
  \/ \E r \in requests, resp \in TabReplies : AnalyzeReply(r, resp)
  \/ rescanPage
  \/ \E n \in Nodes, confirmed \in BOOLEAN : showOriginalContent(n, confirmed)
  \/ \E n \in Nodes : removeBlur(n)
  \/ RestoreContent

\* The scanner and the DOMManipulator on a page whose script also removes
\* elements it had attached, and may attach them again.
NextDetach ==
  \/ \E host \in Hostnames : initialize(host)
  \/ \E s \in ScannerIds, kind \in {"result", "error"} :
       SettingsLoaded(s, kind)
  \/ \E s \in ScannerIds : IntervalFire(s)
  \/ \E root \in Nodes : PageInsert(root)
  \/ \E root \in Nodes : PageRemove(root)
  \/ \E r \in requests, ok \in BOOLEAN : ImageLoaded(r, ok)
  \/ \E r \in requests, resp \in TabReplies : AnalyzeReply(r, resp)
  \/ \E n \in Nodes, confirmed \in BOOLEAN : showOriginalContent(n, confirmed)
  \/ \E n \in Nodes : removeBlur(n)
  \/ RestoreContent

\* A click on the page indicator, which updatePageIndicator(isEnabled)
\* appends to <body> when the content script is loaded.
IndicatorClick == toggleFiltering(~isEnabled)

\* A page of the extension store, or an ordinary page, and the clicks on
\* its indicator.
NextSkip ==
  \/ \E host \in {HostStore, HostPlain} : initialize(host)
  \/ IndicatorClick
  \/ \E s \in ScannerIds, kind \in {"result", "error"} :
       SettingsLoaded(s, kind)
  \/ \E s \in ScannerIds : IntervalFire(s)
  \/ \E root \in Nodes : PageInsert(root)
  \/ \E r \in requests, ok \in BOOLEAN : ImageLoaded(r, ok)
  \/ \E r \in requests, resp \in TabReplies : AnalyzeReply(r, resp)

\* The service worker from an installation or an update on, with the
\* settings messages and the analyses that can arrive meanwhile.
NextInstall ==
  \/ \E reason \in {"install", "update"} : onInstalled(reason)
  \/ DefaultsGet
  \/ DefaultsSet
  \/ \E data \in UpdateData : handleUpdateSettings(data)
  \/ handleTextAnalysis
  \/ ApiResolved
  \/ StatsResolved

\* The values of the popup's radio buttons.
FilterLevels == {"mild", "moderate", "strict"}

\* One page, loaded at any moment, while the popup changes the stored
\* level from another tab.
NextPopup ==
  \/ \E enabled \in BOOLEAN : PopupToggleFiltering(enabled)
  \/ \E level \in FilterLevels : PopupUpdateFilterLevel(level)
  \/ \E host \in Hostnames : initialize(host)
  \/ \E s \in ScannerIds, kind \in {"result", "error"} :
       SettingsLoaded(s, kind)
  \/ \E s \in ScannerIds : IntervalFire(s)
  \/ \E root \in Nodes : PageInsert(root)
  \/ \E r \in requests, ok \in BOOLEAN : ImageLoaded(r, ok)
  \/ \E r \in requests, resp \in TabReplies : AnalyzeReply(r, resp)

\* The service worker as its script leaves it, and a tab in which the
\* content script has not run yet.
Init ==
  /\ analysisCache = <<>>
  /\ pendingRequests = <<>>
  /\ now = 0
  /\ handlers = EmptyBag
  /\ swEvent = NoEvent
  /\ totalScanned = 0
  /\ classified = 0
  /\ hostname = <<>>
  /\ storage = DefaultSettings
  /\ dom = InitDom
  /\ scanners = [s \in ScannerIds |-> NoScanner]
  /\ contentScanner = 0
  /\ requests = {}
  /\ blockedElements = {}
  /\ replacementElements = {}
  /\ queued = [n \in Elements |-> 0]
  /\ sent = [n \in Elements |-> 0]
  /\ unhandled = {}
  /\ pgEvent = NoPageEvent
  /\ isEnabled = TRUE
  /\ paused = FALSE
  /\ updated = FALSE
  /\ levelBeforeOff = "none"
  /\ absentKeys = {}

NextSW ==
  \/ handleTextAnalysis
  \/ handleImageAnalysis
  \/ ApiResolved
  \/ ApiRejected
  \/ StatsResolved
  \/ StatsRejected
  \/ Tick

\* The service worker alone, under one page that does not act.
SpecSW == Init /\ [][NextSW]_vars

\* ANALYZE_* messages for one payload under policies that differ in one
\* parameter each: the threshold, the age group, the content kind.
PolicyRequests ==
  {[kind |-> "text", payload |-> <<97>>, threshold |-> 60,
    ageGroup |-> "moderate"],
   [kind |-> "text", payload |-> <<97>>, threshold |-> 40,
    ageGroup |-> "moderate"],
   [kind |-> "text", payload |-> <<97>>, threshold |-> 60,
    ageGroup |-> "strict"],
   [kind |-> "image", payload |-> <<97>>, threshold |-> 60,
    ageGroup |-> "moderate"]}

\* The service worker while the stored settings, and with them the policy
\* parameters of the requests it gets, change; all within the lifetime of
\* the cache's entries (the clock stands still).
NextKeys ==
  \/ \E d \in PolicyRequests : AnalysisStart(d)
  \/ ApiResolved
  \/ ApiRejected
  \/ StatsResolved
  \/ StatsRejected
  \/ \E settings \in TabSettings : StorageSet(settings)

SpecKeys == Init /\ [][NextKeys]_vars

\* The service worker with the options page's CLEAR_CACHE among its
\* messages, within the lifetime of the cache's entries.
NextClear ==
  \/ handleTextAnalysis
  \/ handleImageAnalysis
  \/ ApiResolved
  \/ ApiRejected
  \/ StatsResolved
  \/ StatsRejected
  \/ ClearCacheMessage

SpecClear == Init /\ [][NextClear]_vars

\* The service worker with every storage call of updateStats as a step of
\* its own, so that the calls of the handlers in flight interleave; storage
\* does not fail.
NextStats ==
  \/ handleTextAnalysis
  \/ handleImageAnalysis
  \/ ApiResolved
  \/ ApiRejected
  \/ StatsGet
  \/ StatsSet

SpecStats == Init /\ [][NextStats]_vars

\* One scanner from its construction on, with the visibility and focus
\* events of the page; the stored settings do not change.
NextLoad ==
  \/ \E host \in Hostnames : initialize(host)
  \/ \E s \in ScannerIds, kind \in {"result", "error"} :
       SettingsLoaded(s, kind)
  \/ \E s \in ScannerIds : IntervalFire(s)
  \/ \E root \in Nodes : PageInsert(root)
  \/ \E r \in requests, ok \in BOOLEAN : ImageLoaded(r, ok)
  \/ \E r \in requests, resp \in TabReplies : AnalyzeReply(r, resp)
  \/ pauseScanning
  \/ resumeScanning

\* The reply to GET_SETTINGS arrives and a timer that is set fires; the
\* events of the page and the replies to analyses may or may not come.
SpecLoad ==
  /\ Init
  /\ [][NextLoad]_vars
  /\ WF_vars(\E s \in ScannerIds, kind \in {"result", "error"} :
               SettingsLoaded(s, kind))
  /\ WF_vars(\E s \in ScannerIds : IntervalFire(s))

\* The page alone: what the service worker replies is an input of the page.
SpecPage == Init /\ [][NextPage]_vars

\* One scanner on a page whose analyses are answered with every verdict of
\* PageVerdicts; the stored settings do not change.
NextMethod ==
  \/ \E host \in Hostnames : initialize(host)
  \/ \E s \in ScannerIds, kind \in {"result", "error"} :
       SettingsLoaded(s, kind)
  \/ \E s \in ScannerIds : IntervalFire(s)
  \/ \E root \in Nodes : PageInsert(root)
  \/ \E r \in requests, ok \in BOOLEAN : ImageLoaded(r, ok)
  \/ \E r \in requests, resp \in Replies : AnalyzeReply(r, resp)

SpecMethod == Init /\ [][NextMethod]_vars

SpecDom == Init /\ [][NextDom]_vars

SpecLife == Init /\ [][NextLife]_vars

SpecReveal == Init /\ [][NextReveal]_vars

SpecDetach == Init /\ [][NextDetach]_vars

SpecPopup == Init /\ [][NextPopup]_vars

SpecSkip == Init /\ [][NextSkip]_vars

SpecInstall == Init /\ [][NextInstall]_vars

(***************************************************************************)
(* Properties of the service worker (checked under SpecSW).                 *)
(***************************************************************************)
Keys == {KeyOf(d) : d \in Requests}

\* C1: for every cache key at most one Gateway request is outstanding at any
\* time (requests with the same key that arrive before the first completed
\* share its one Gateway call).
C1_OneOutstandingPerKey ==
  \A key \in Keys : Outstanding(handlers, key) <= 1

\* C2: analysisCache never holds more than MAX_CACHE_SIZE entries.
C2_CacheBounded == Len(analysisCache) <= MAX_CACHE_SIZE

\* setCache has just evicted at the limit and the cache is full again.
C2_Witness ==
  swEvent.op = "storedEvict" /\ Len(analysisCache) = MAX_CACHE_SIZE

\* C3: whenever setCache evicts, the entry it deletes has the oldest
\* timestamp of all entries then in the cache.
C3_EvictsOldest ==
  [][(ApiResolved /\ EvictFirst(analysisCache) # analysisCache)
       => Head(analysisCache).timestamp = OldestTimestamp(analysisCache)]_vars

\* C4: a lookup of an entry whose age is at least CACHE_DURATION is a miss
\* and removes the entry from the cache.
C4_NoStaleHit ==
  [][\A d \in Requests :
       (/\ EntryAge(analysisCache, KeyOf(d), now) >= CACHE_DURATION
        /\ AnalysisStart(d))
       => /\ swEvent' = Event("expired", NoVerdict)
          /\ KeyOf(d) \notin CacheKeys(analysisCache')]_vars

\* A stale entry has just been looked up.
C4_Witness == swEvent.op = "expired" /\ now >= CACHE_DURATION

\* C5: a request whose key has an entry younger than CACHE_DURATION is
\* answered with that entry's verdict and makes no Gateway call; a request
\* whose key has an entry of age CACHE_DURATION or more makes a Gateway call.
C5_CacheWindow ==
  [][\A d \in Requests :
       (KeyOf(d) \in CacheKeys(analysisCache) /\ AnalysisStart(d))
       => LET key == KeyOf(d)
              entry == analysisCache[CacheIndex(analysisCache, key)]
          IN IF now - entry.timestamp < CACHE_DURATION
             THEN /\ swEvent' = Event("hit", entry.data)
                  /\ handlers' = handlers
             ELSE /\ Outstanding(handlers', key) = Outstanding(handlers, key) + 1
                  /\ ~RepliesSuccess(swEvent'.op)]_vars

\* A request has just been answered from the cache, one tick or more after
\* its entry was stored.
C5_Witness ==
  /\ swEvent.op = "hit"
  /\ \E i \in 1..Len(analysisCache) :
       /\ analysisCache[i].data = swEvent.result
       /\ analysisCache[i].timestamp < now

\* C6: when the Gateway call fails the handler replies success: false and
\* the cache is as it was: no failure is stored.
C6_FailureNotCached ==
  /\ [](\A i \in 1..Len(analysisCache) : analysisCache[i].data \in GatewayVerdicts)
  /\ [][ApiRejected
          => (analysisCache' = analysisCache /\ RepliesFailure(swEvent'.op))]_vars

\* A Gateway call has just failed while the cache holds entries.
C6_Witness == swEvent.op = "apiFailed" /\ Len(analysisCache) > 0

(***************************************************************************)
(* Properties of the page (checked under SpecPage).                         *)
(***************************************************************************)
ErrorReplies == {resp \in Replies : resp.kind \in {"error", "undefined"}}

\* C7: fail-open.  When the reply for a fragment is an error (success
\* false) or no reply at all (undefined), no element is added to
\* blockedElements or replaced, blurred or hidden, no exception leaves
\* processQueue, and the scanner is left as it was, nothing stuck in its
\* queue and the analyses of the other fragments still under way.
C7_FailOpen ==
  /\ []("processQueue" \notin unhandled)
  /\ [][\A r \in requests : \A resp \in ErrorReplies :
          AnalyzeReply(r, resp)
          => /\ blockedElements' = blockedElements
             /\ replacementElements' = replacementElements
             /\ dom' = dom
             /\ unhandled' = unhandled
             /\ scanners' = scanners
             /\ scanners[r.scanner].scanQueue = <<>>
             /\ requests' = requests \ {r}]_vars

\* An error reply was handled for a node while another analysis is under
\* way, and the node is not blocked.
C7_Witness ==
  /\ pgEvent.op \in {"replyError", "replyUndefined"}
  /\ pgEvent.node \notin blockedElements
  /\ \E r \in requests : r.pc = "sent" /\ r.node # pgEvent.node

\* C8: whatever passes run over the page (the first scan, the periodic
\* rescans, the Google-results scan, the scans of added nodes, the scans of
\* scanners constructed by RESCAN_PAGE or UPDATE_SETTINGS), a node is pushed
\* to a scan queue at most once and at most one request is sent for it.
C8_QueuedOnce == \A n \in Nodes : queued[n] <= 1 /\ sent[n] <= 1

\* On a Google page a second scanner has scanned and a periodic rescan has
\* run, over nodes already queued and sent once.
C8_Witness ==
  /\ hostname = HostGoogle
  /\ contentScanner > 1
  /\ scanners[contentScanner].phase = "ready"
  /\ scanners[contentScanner].interval
  /\ pgEvent.op = "interval"
  /\ \A n \in 1..3 : queued[n] = 1
  /\ sent[1] = 1

\* C9: a scanner whose loaded settings allowlist the hostname queues no
\* fragment and sends no request: no analysis of such a scanner is ever
\* under way, whether its node was there at the start, found by a rescan,
\* or added later.
C9_AllowlistedNeverScans ==
  \A r \in requests : ~isAllowlisted(scanners[r.scanner].settings, hostname)

----------------------------------------------------------------------------
\* Properties of the blocking method (checked under SpecMethod).

\* C10: the blocking method is a function of the verdict alone: replace for
\* a confidence above 0.8 or the severe category; otherwise blur in the
\* middle band; otherwise replace; never hide.  (0.85 with a severe label
\* gives replace, 0.65 blur, 0.3 replace.)
C10_BlockingMethod ==
  pgEvent.op = "blocked" =>
    LET v == pgEvent.result
        c == v.confidence
        severe == Has(v.flagged_categories, "severe_toxic")
        m == pgEvent.method
    IN /\ \A type \in {"text", "image"} : getBlockingMethod(type, v) = m
       /\ (c > 80 \/ severe) => m = "replace"
       /\ (~severe /\ c > 60 /\ c < 80) => m = "blur"
       /\ (~severe /\ c < 60) => m = "replace"
       /\ m # "hide"
       /\ (c = 85 /\ Len(v.flagged_categories) > 0) => m = "replace"
       /\ (c = 65 /\ ~severe) => m = "blur"
       /\ c = 30 => m = "replace"
       /\ (m = "replace") = (pgEvent.node \in dom.replaced)
       /\ (m = "blur") = (pgEvent.node \in dom.blurred)

\* An element was blurred on a verdict of confidence 0.65.
C10_Witness ==
  /\ pgEvent.op = "blocked"
  /\ pgEvent.result.confidence = 65
  /\ pgEvent.method = "blur"
  /\ pgEvent.node \in dom.blurred

\* C11: at the band boundaries the method is that of the higher band: with
\* no severe category, a confidence of exactly 0.8 gives replace and a
\* confidence of exactly 0.6 gives blur.
C11_BoundaryHigherBand ==
  (pgEvent.op = "blocked"
     /\ ~Has(pgEvent.result.flagged_categories, "severe_toxic"))
  => /\ pgEvent.result.confidence = 80 => pgEvent.method = "replace"
     /\ pgEvent.result.confidence = 60 => pgEvent.method = "blur"

(***************************************************************************)
(* Properties of the DOMManipulator (checked under SpecDom).                *)
(***************************************************************************)
\* The blockings a node carries.
Treatments(d, n) == {k \in {"replaced", "blurred", "hidden"} : n \in d[k]}

\* C12: a fragment has at most one active blocking at any moment, and
\* handleUnsafeContent for an element already in blockedElements changes
\* nothing: no second placeholder, no second blur listener, no second
\* record.
C12_OneRecord ==
  /\ [](\A n \in Nodes : Cardinality(Treatments(dom, n)) <= 1)
  /\ [][\A n \in blockedElements : \A type \in {"text", "image"} :
          \A v \in DomVerdicts :
            handleUnsafeContent(n, type, v)
            => /\ dom' = dom
               /\ blockedElements' = blockedElements
               /\ replacementElements' = replacementElements]_vars

\* The event came for a blurred element with a verdict that would have
\* had it replaced.
C12_Witness ==
  /\ pgEvent.op = "alreadyBlocked"
  /\ pgEvent.node \in blockedElements
  /\ pgEvent.node \in dom.blurred
  /\ getBlockingMethod("text", pgEvent.result) = "replace"

(***************************************************************************)
(* Properties of reveal and restoration (checked under SpecReveal and      *)
(* SpecDom).                                                                *)
(***************************************************************************)
\* What an element carries: its attributes, classes and listeners.
NodeState(d, n) ==
  [processed |-> n \in d.processed, safe |-> n \in d.safe,
   blurred |-> n \in d.blurred, hidden |-> n \in d.hidden,
   blurHandler |-> n \in d.blurHandler, showButton |-> n \in d.showButton]

\* C13: after replaceContent and a confirmed reveal the original node is
\* back where its placeholder stood, is as it was before the block (a
\* replaced node is out of the tree and nothing touches it until the
\* reveal), has no record, and is never queued again.
C13_RevealRestores ==
  /\ [](\A n \in Nodes : queued[n] <= 1)
  /\ [][\A n \in Nodes :
          showOriginalContent(n, TRUE)
          => /\ n \notin dom'.replaced
             /\ InDocument(dom', n) = PlaceholderInDocument(dom, n)
             /\ n \notin blockedElements'
             /\ n \notin replacementElements'
             /\ NodeState(dom', n) = NodeState(dom, n)]_vars

\* C14: after restoreAllContent every replaced node is back in place of its
\* placeholder, no node carries the blur treatment (the class, and the click
\* listener and tooltip blurContent attached with it), every hidden node
\* has its display back and its reveal control gone, and blockedElements
\* and replacementElements are both empty.
C14_RestoreAllReverses ==
  pgEvent.op = "restored"
  => /\ dom.replaced = {}
     /\ dom.blurred = {} /\ dom.blurHandler = {}
     /\ dom.hidden = {} /\ dom.showButton = {}
     /\ blockedElements = {} /\ replacementElements = {}

----------------------------------------------------------------------------
\* Properties of the scanner's lifecycle (checked under SpecLife).

\* The analyses scanner s starts in a step: the items it queued, which
\* processQueue turned into suspended analyses at once.
Discovered(s) ==
  {r \in requests' \ requests :
     r.scanner = s /\ (r.type = "text" \/ r.pc = "loading")}

\* C16: after destroy() a scanner never again discovers or queues a
\* fragment, from its mutation observer or from its periodic rescan, also
\* when destroy() ran before init() had loaded the settings.
C16_DestroyedNeverDiscovers ==
  [][\A s \in ScannerIds : Destroyed(s) => Discovered(s) = {}]_vars

\* C17: a verdict that arrives for a request of a destroyed scanner triggers
\* no blocking action: no unsafe-content event is dispatched, no Blocked
\* Element Record is created and the page is left as it was.
C17_NoBlockingAfterDestroy ==
  [][\A r \in requests : \A resp \in TabReplies :
       (Destroyed(r.scanner) /\ AnalyzeReply(r, resp))
       => /\ pgEvent'.op \notin {"blocked", "alreadyBlocked"}
          /\ blockedElements' = blockedElements
          /\ replacementElements' = replacementElements
          /\ dom' = dom]_vars

\* C18: stopping the scanner (toggleFiltering(false), or the destroy() of
\* rescanPage and updateSettings) leaves every applied blocking in place:
\* blockedElements, replacementElements and the placeholders and blur
\* treatments in the page are unchanged by the stop.
C18_StopKeepsBlocking ==
  [][(contentScanner # 0
      /\ (toggleFiltering(FALSE) \/ rescanPage \/ updateSettings))
     => /\ blockedElements' = blockedElements
        /\ replacementElements' = replacementElements
        /\ dom' = dom]_vars

\* The scanner has just been stopped on a page that shows a placeholder.
C18_Witness ==
  /\ pgEvent.op = "stopped"
  /\ contentScanner = 0
  /\ blockedElements # {}
  /\ replacementElements # {}
  /\ dom.replaced # {}

\* C19: between pauseScanning() and the next resumeScanning() the scanner's
\* discovery is suspended: the paused scanner queues no fragment and sends
\* no classification request, from its mutation observer or from its
\* periodic rescan.
C19_PausedNeverDiscovers ==
  [][(/\ paused /\ paused'
      /\ contentScanner # 0 /\ contentScanner' = contentScanner
      /\ scanners[contentScanner].phase = "ready"
      /\ ~scanners[contentScanner].isScanning)
     => Discovered(contentScanner) = {}]_vars

\* The ANALYZE_TEXT and ANALYZE_IMAGE messages sent in a step, and the
\* threshold and age group analyzeText and analyzeImage put in them.
Issued == {r \in requests' \ requests : r.pc = "sent"}

PolicyOf(settings, type) == <<getThreshold(settings, type), settings.ageGroup>>

\* C20: once UPDATE_SETTINGS has replaced the scanner, every classification
\* request issued from the page carries the threshold and age group of the
\* new settings, those in storage that the new scanner has loaded, never
\* those of the old ones.
C20_RequestsCarryNewSettings ==
  [][(/\ updated
      /\ contentScanner # 0 /\ contentScanner' = contentScanner
      /\ scanners[contentScanner].phase = "ready"
      /\ scanners[contentScanner].settings = storage)
     => \A r \in Issued :
          PolicyOf(scanners'[r.scanner].settings, r.type)
            = PolicyOf(scanners'[contentScanner].settings, r.type)]_vars

----------------------------------------------------------------------------
\* Properties of verdicts and of the order of a fragment's steps.

\* The analyses of node n that await their image or their reply.
Awaiting(n) == {r \in requests : r.node = n}

\* A fragment that is processed, awaits nothing and has no record: the
\* state a safe verdict leaves it in.
ProcessedSafe(n) ==
  /\ n \in dom.processed
  /\ Awaiting(n) = {}
  /\ n \notin blockedElements

\* C21: a fragment whose verdict is safe gets no Blocked Element Record and
\* no visual change and keeps its processed mark; from then on it is never
\* queued, classified or blocked: processed-safe is a terminal state.
C21_SafeIsTerminal ==
  /\ [][\A r \in requests : \A resp \in TabReplies :
          (resp.kind = "result" /\ resp.result.is_safe /\ AnalyzeReply(r, resp))
          => /\ dom' = dom
             /\ blockedElements' = blockedElements
             /\ replacementElements' = replacementElements
             /\ pgEvent'.op = "replySafe"
             /\ ProcessedSafe(r.node)']_vars
  /\ [][\A n \in Nodes :
          ProcessedSafe(n)
          => /\ ProcessedSafe(n)'
             /\ queued'[n] = queued[n]
             /\ sent'[n] = sent[n]
             /\ n \notin dom'.replaced
             /\ NodeState(dom', n) = NodeState(dom, n)]_vars

\* A safe verdict has just been handled for a marked node.
C21_Witness ==
  /\ pgEvent.op = "replySafe"
  /\ pgEvent.result.is_safe
  /\ ProcessedSafe(pgEvent.node)

----------------------------------------------------------------------------
\* Properties of the cache key (checked under SpecKeys).

SamePolicy(d1, d2) ==
  /\ d1.kind = d2.kind
  /\ d1.threshold = d2.threshold
  /\ d1.ageGroup = d2.ageGroup

\* C22: a verdict cached for one (content kind, content, threshold, age
\* group) is never returned for a request that differs in threshold, age
\* group or content kind; identical content with identical policy
\* parameters maps to the same key; a settings change by itself removes no
\* cache entry.
C22_KeyCarriesPolicy ==
  /\ [](\A d1 \in PolicyRequests : \A d2 \in PolicyRequests :
          /\ KeyOf(d1) = KeyOf(d2) => SamePolicy(d1, d2)
          /\ (SamePolicy(d1, d2) /\ d1.payload = d2.payload)
               => KeyOf(d1) = KeyOf(d2))
  /\ [][\A d \in PolicyRequests :
          (AnalysisStart(d) /\ swEvent'.op = "hit")
          => \E i \in 1..Len(analysisCache) :
               /\ analysisCache[i].key = KeyOf(d)
               /\ analysisCache[i].data = swEvent'.result
               /\ \A d2 \in PolicyRequests :
                    KeyOf(d2) = analysisCache[i].key => SamePolicy(d, d2)]_vars
  /\ [][(\E settings \in TabSettings : StorageSet(settings))
          => analysisCache' = analysisCache]_vars

\* A request is answered from the cache while the cache also holds verdicts
\* for the same payload under another policy.
C22_Witness ==
  /\ swEvent.op = "hit"
  /\ storage # DefaultSettings
  /\ \E d1 \in PolicyRequests : \E d2 \in PolicyRequests :
       /\ ~SamePolicy(d1, d2)
       /\ {KeyOf(d1), KeyOf(d2)} \subseteq CacheKeys(analysisCache)
       /\ getFromCacheRet(analysisCache, KeyOf(d1), now) = swEvent.result
       /\ getFromCacheRet(analysisCache, KeyOf(d2), now) # swEvent.result

----------------------------------------------------------------------------
\* Properties of the placeholder and of the blur (checked under SpecDom
\* and SpecReveal).

\* The reason on the placeholder createReplacementElement has just built.
PlaceholderReason == getBlockingReason(pgEvent.result)

\* C23: the reason shown on a replacement placeholder is derived from the
\* verdict's flagged category labels: with no labels it is the generic
\* message, and for a verdict flagged "hate" it references "Hate speech".
C23_ReasonFromCategories ==
  (pgEvent.op = "blocked" /\ pgEvent.method = "replace"
     /\ pgEvent.node \in dom.replaced)
  => /\ pgEvent.result.flagged_categories = <<>>
          => PlaceholderReason = <<"Potentially inappropriate content">>
     /\ Has(pgEvent.result.flagged_categories, "hate")
          => Has(PlaceholderReason, "Hate speech")

\* C24: after blurContent the first click on the node removes the blur,
\* marks the node safe and deletes its Blocked Element Record; from then on
\* the node is never queued or blocked again and further clicks change
\* nothing (the listener is gone).
C24_ClickUnblursForGood ==
  /\ [][\A n \in Nodes :
          (n \in dom.blurred /\ removeBlur(n))
          => /\ n \notin dom'.blurred
             /\ n \in dom'.safe
             /\ n \notin blockedElements'
             /\ n \notin dom'.blurHandler]_vars
  /\ [][\A n \in Nodes :
          (n \in dom.safe /\ n \notin dom.blurHandler)
          => /\ n \in dom'.safe /\ n \notin dom'.blurHandler
             /\ queued'[n] = queued[n]
             /\ sent'[n] = sent[n]
             /\ n \notin blockedElements'
             /\ n \notin dom'.blurred /\ n \notin dom'.replaced]_vars

\* The click has just removed the blur of a node.
C24_Witness ==
  /\ pgEvent.op = "unblurred"
  /\ pgEvent.node \in dom.safe
  /\ pgEvent.node \notin dom.blurHandler
  /\ pgEvent.node \in dom.processed

----------------------------------------------------------------------------
\* Properties of the scanner's start and discovery (checked under SpecPage).

\* C25: no failure while loading settings is fatal: when GET_SETTINGS gets
\* an error reply, no reply, or throws, the scanner falls back to the
\* default settings and init() still starts scanning and mutation
\* observation without raising.
C25_SettingsFailureFallsBack ==
  [][\A s \in ScannerIds : \A kind \in {"error", "undefined"} :
       SettingsLoaded(s, kind)
       => /\ scanners'[s].settings = DefaultSettings
          /\ scanners'[s].isScanning
          /\ scanners'[s].observer
          /\ scanners'[s].phase = "ready"
          /\ unhandled' = unhandled]_vars

\* The discovery and eligibility filters of the full scan, for one node.
Eligible(d, n) ==
  /\ ~shouldIgnoreElement(d, n)
  /\ \/ NodeTag(n) \in TextTags /\ shouldAnalyzeText(extractText(n))
     \/ NodeTag(n) \in ImageTags /\ shouldAnalyzeImage(n)

\* C26: when a sub-tree is inserted, the mutation handler applies the
\* filters of the full scan to every node of the sub-tree, the inserted
\* root included, and to no node outside it: exactly the eligible nodes of
\* the sub-tree are queued.
C26_InsertScansSubtree ==
  [][\A root \in Nodes :
       (/\ PageInsert(root)
        /\ contentScanner # 0
        /\ scanners[contentScanner].observer
        /\ ~isAllowlisted(scanners[contentScanner].settings, hostname))
       => \A n \in Nodes :
            (queued'[n] # queued[n])
              <=> /\ n = root \/ IsInside(dom', n, root)
                  /\ Eligible(dom, n)]_vars

\* C27: queue draining is rate-bounded: of the fragments one scan pass
\* discovers, processQueue dispatches at most one per step, so no task
\* starts more than one classification request.
C27_OneDispatchPerTask ==
  [][/\ Cardinality(Issued) <= 1
     /\ Cardinality(dom'.processed \ dom.processed) <= 1]_vars

\* C28: for every fragment the steps happen in the order discovery,
\* queuing, marking as processed, classification request, verdict, blocking
\* action: no classification request is sent for a node not yet marked
\* processed, and no fragment is blocked before its own verdict has been
\* received.
C28_StepsInOrder ==
  /\ [](\A n \in Nodes :
          /\ Awaiting(n) # {} => (queued[n] >= 1 /\ n \in dom.processed)
          /\ sent[n] >= 1 => (queued[n] >= 1 /\ n \in dom.processed)
          /\ n \in blockedElements => (sent[n] >= 1 /\ Awaiting(n) = {}))
  /\ [][\A n \in blockedElements' \ blockedElements :
          /\ \E r \in requests \ requests' : r.node = n /\ r.pc = "sent"
          /\ pgEvent' = PageEvent("blocked", n, pgEvent'.result, pgEvent'.method)
          /\ ~pgEvent'.result.is_safe]_vars

\* Completion order across fragments is free: the verdict of the <div>
\* found later has blocked it while the <p> found first still awaits its
\* own.
C28_Witness ==
  /\ pgEvent.op = "blocked"
  /\ pgEvent.node = 2
  /\ 2 \in blockedElements
  /\ \E r \in requests : r.node = 1 /\ r.pc = "sent"

\* Some allowlist entry is a substring of the hostname.
EntryInHostname(allowlist, host) ==
  \E i \in 1..Len(allowlist) : Includes(host, allowlist[i])

\* C29: isAllowlisted treats a page as trusted exactly when some allowlist
\* entry is a substring of the page's hostname (a hostname that is only a
\* substring of a longer entry is not trusted): startScanning skips the
\* scan and the periodic rescan for exactly those pages.
C29_TrustedIffEntryInHostname ==
  [][\A s \in ScannerIds : \A kind \in {"result", "error"} :
       (SettingsLoaded(s, kind) /\ ~scanners[s].isScanning)
       => /\ isAllowlisted(scanners'[s].settings, hostname)
               <=> EntryInHostname(scanners'[s].settings.allowlist, hostname)
          /\ scanners'[s].interval
               <=> ~EntryInHostname(scanners'[s].settings.allowlist, hostname)]_vars

\* The element carries the class ai-firewall-safe or is inside an element
\* that does.
MarkedSafeOrInside(d, n) ==
  \E a \in d.safe : a = n \/ IsInside(d, n, a)

\* C30: no placeholder built by replaceContent, and no element inside one, is
\* ever queued for analysis; and an element marked safe, or inside one marked
\* safe, is not queued again by any step, the observer callbacks that report
\* the insertion of a placeholder or of a revealed original included.
C30_MarkersNeverQueued ==
  /\ [](\A m \in Elements \ Nodes : queued[m] = 0)
  /\ [][\A n \in Elements :
          MarkedSafeOrInside(dom', n) => queued'[n] = queued[n]]_vars

\* A connected observer was told of the original put back by a reveal, an
\* element with an image inside, while another placeholder is in the page.
C30_Witness ==
  /\ pgEvent.op = "revealed"
  /\ \E n \in Nodes : NodeParent(n) = pgEvent.node
  /\ \E s \in ScannerIds : scanners[s].observer
  /\ \E n \in Nodes : PlaceholderInDocument(dom, n)

\* C31: a CLEAR_CACHE message empties analysisCache and is answered with
\* success: true, so that a request for a key that was cached goes to the
\* Gateway again.
C31_ClearCacheEmpties ==
  [][(ClearCacheMessage /\ analysisCache # <<>>)
       => /\ analysisCache' = <<>>
          /\ RepliesSuccess(swEvent'.op)]_vars

\* The eligible fragments of the page as the content script finds it.
InitialFragments ==
  {n \in Nodes : InDocument(InitDom, n) /\ Eligible(InitDom, n)}

\* The page has a scanner and is not allowlisted.
ScannerOnUntrustedPage ==
  contentScanner # 0 /\ ~isAllowlisted(storage, hostname)

\* Every fragment the page had from the start has been queued.
InitialFragmentsQueued == \A n \in InitialFragments : queued[n] > 0

\* C32: on a page that is not allowlisted, every eligible fragment that is
\* in the page when the ContentScanner is constructed is eventually queued,
\* however the visibility and focus events fall around the settings load.
C32_InitialFragmentsQueued ==
  ScannerOnUntrustedPage ~> InitialFragmentsQueued

\* No handler is inside its statistics update: between handlers.
StatsQuiescent == \A h \in BagToSet(handlers) : h.pc \notin {"stats", "statsSet"}

\* C37: whenever no handler is inside its statistics update, the stored
\* totalScanned equals the number of analyses the Gateway classified: one
\* increment for each, whatever the verdict, and none lost.
C37_TotalScannedCounts == StatsQuiescent => totalScanned = classified

\* The handler h, suspended at its statistics update, ends in this step.
StatsPhaseEnds(h) ==
  /\ h \in BagToSet(handlers)
  /\ h.pc = "stats"
  /\ handlers' = handlers (-) SetToBag({h})

\* C33: an unsafe verdict of the Gateway is not dropped between the
\* service worker and the page: the handler that holds it after caching
\* answers the page with that verdict, also when the statistics write
\* that follows caching fails.
C33_UnsafeVerdictDelivered ==
  [][\A h \in BagToSet(handlers) :
       (StatsPhaseEnds(h) /\ ~h.result.is_safe)
         => swEvent' = Event("replied", h.result)]_vars

\* The nodes whose blocking is applied: replaced, blurred or hidden.
Suppressed(d) == d.replaced \cup d.blurred \cup d.hidden

\* getBlockedCount(): this.blockedElements.size.
getBlockedCount == Cardinality(blockedElements)

\* C34: a record is in blockedElements exactly while its blocking is
\* applied, so getBlockedCount() is the number of nodes replaced, blurred or
\* hidden, also when a node was detached before its verdict arrived.
C34_BlockedCountIsSuppressed ==
  /\ blockedElements = Suppressed(dom)
  /\ getBlockedCount = Cardinality(Suppressed(dom))

\* The current scanner read 'disabled' as its filteringLevel in loadSettings.
ScannerLoadedDisabled ==
  /\ contentScanner # 0
  /\ scanners[contentScanner].settings.filteringLevel = "disabled"

\* C35: a page whose scanner loaded the stored level 'disabled' sends no
\* classification request and blocks nothing.
C35_DisabledSendsNothing ==
  ScannerLoadedDisabled
    => /\ \A n \in Elements : sent[n] = 0
       /\ requests = {}
       /\ blockedElements = {}

\* The page is one initialize() skipped.
OnSkippedPage == hostname # <<>> /\ shouldSkipPage(hostname)

\* C36: on a page shouldSkipPage() is true for, no ContentScanner and no
\* DOMManipulator is ever created.
C36_SkippedPageUntouched ==
  OnSkippedPage => Constructed = {} /\ contentScanner = 0 /\ ~domManipulator

\* C38: switching filtering off and on again from the popup leaves the
\* stored filteringLevel as it was before the two switches.
C38_ToggleRestoresLevel ==
  [][PopupToggleFiltering(TRUE)
       => storage'.filteringLevel = levelBeforeOff]_vars

\* The step in which setDefaultSettings returns.
DefaultsReturn ==
  DefaultsSet \/ (DefaultsGet /\ swEvent'.op = "defaultsKept")

\* C39: setDefaultSettings writes a default only for keys that are absent
\* from storage, so every key that is stored keeps its value, and when it
\* returns all five default keys are present.
C39_DefaultsOnlyForAbsentKeys ==
  [][/\ DefaultsSet
        => \A key \in ValueKeys \ absentKeys : storage'[key] = storage[key]
     /\ DefaultsReturn => absentKeys' = {}]_vars

====
